---- MODULE Spec2Model ----
(***************************************************************************)
(* symbol-crypto-core: keypairs, EdDSA signing and verification and the    *)
(* two message ciphers, in the Symbol and the NIS1 variant.                *)
(*                                                                         *)
(* Bytes are integers 0..255 and byte strings are sequences of them at     *)
(* their real lengths; index i of the Rust source is index i + 1 here.     *)
(* Scalars are 32-byte little-endian strings and scalar arithmetic is      *)
(* arithmetic modulo the real group order l.  A point of the prime-order   *)
(* subgroup is held as its discrete logarithm to the base point (a         *)
(* canonical scalar), which makes the group law exact; the compressed      *)
(* encoding, the digests and AES are stand-ins of the right shape for the  *)
(* external primitives (injective encoding, deterministic digest, keyed    *)
(* permutation).                                                           *)
(***************************************************************************)
EXTENDS Integers, Sequences, FiniteSets, TLC

VARIABLES
    pc,         \* position of the caller: which call comes next
    kp,         \* the Keypair value the caller holds (NoKeypair before construction)
    origin,     \* the constructor that returned the keypair built last
    peer,       \* the other party's Keypair (cipher calls)
    op,         \* the last call made
    arg,        \* the inputs of the last call
    ret,        \* the result of the last call
    plain,      \* the message given to the last sign or encrypt_message
    sig,        \* the signature returned by the last sign
    env,        \* the envelope returned by the last encrypt_message
    drawn       \* the random bytes drawn by the last call

vars == <<pc, kp, origin, peer, op, arg, ret, plain, sig, env, drawn>>

----------------------------------------------------------------------------
(* Program constants *)

SYM_AES_IV_LENGTH == 12
NIS_AES_IV_LENGTH == 16
NIS_SALT_LENGTH == 32
AES_TAG_LENGTH == 16
KEY_BYTES_SIZE == 32
KEY_STR_SIZE == 64
SIGNATURE_LENGTH == 64
KEYPAIR_LENGTH == KEY_BYTES_SIZE + KEY_BYTES_SIZE

(* Bounds of the model *)

NumKeys == 3        \* private keys the caller may hold
NumMsgs == 2        \* messages
NumDraws == 2       \* outcomes of one call of the random generator
NumShifts == 2      \* multiples of the group order added to a scalar
NumPoints == 2      \* curve points that are no public key of the caller's private keys
NumThreads == 2     \* threads that call into the library at the same time

----------------------------------------------------------------------------
(* Results of a call: Ok(v), Err(e), or a panic that aborts the caller.    *)
(* ops counts the key derivations and cipher operations the call ran       *)
(* before it returned.                                                     *)

Ok(v) == [kind |-> "ok", value |-> v, error |-> "", ops |-> 0]
Err(e) == [kind |-> "err", value |-> <<>>, error |-> e, ops |-> 0]
Panic(e) == [kind |-> "panic", value |-> <<>>, error |-> e, ops |-> 0]
NoResult == [kind |-> "none", value |-> <<>>, error |-> "", ops |-> 0]
After(n, result) == [result EXCEPT !.ops = n]

----------------------------------------------------------------------------
(* Bytes *)

Only(S) == CHOOSE v \in S : TRUE
\* let v be the value of e in F(v): e is computed once, however often F reads v
Let(e, F(_)) == F(e)
Zeros(n) == [i \in 1..n |-> 0]
Byte(x, i) == IF i <= Len(x) THEN x[i] ELSE 0
Bit(a, j) == (a \div (2 ^ j)) % 2
And8(a, b) == (Bit(a, 0) * Bit(b, 0)) + (2 * Bit(a, 1) * Bit(b, 1))
    + (4 * Bit(a, 2) * Bit(b, 2)) + (8 * Bit(a, 3) * Bit(b, 3))
    + (16 * Bit(a, 4) * Bit(b, 4)) + (32 * Bit(a, 5) * Bit(b, 5))
    + (64 * Bit(a, 6) * Bit(b, 6)) + (128 * Bit(a, 7) * Bit(b, 7))
Or8(a, b) == (a + b) - And8(a, b)
Xor8(a, b) == (a + b) - (2 * And8(a, b))
\* [T]::reverse
Reverse(x) == [i \in 1..Len(x) |-> x[Len(x) + 1 - i]]
\* x[from..to] of the source: 0-based, to exclusive
Slice(x, from, to) == SubSeq(x, from + 1, to)

----------------------------------------------------------------------------
(* curve25519-dalek scalars: arithmetic modulo the group order *)

\* l = 2^252 + 27742317777372353535851937790883648493, little-endian
BASEPOINT_ORDER == <<237, 211, 245, 92, 26, 99, 18, 88, 214, 156, 247, 162, 222, 249, 222, 20,
                     0, 0, 0, 0, 0, 0, 0, 0, 0, 0, 0, 0, 0, 0, 0, 16>>

\* a < b as little-endian integers
Lt(a, b) ==
    Let({i \in 1..(IF Len(a) > Len(b) THEN Len(a) ELSE Len(b)) : Byte(a, i) # Byte(b, i)},
        LAMBDA D : D # {} /\ Let(CHOOSE i \in D : \A j \in D : j <= i,
                                 LAMBDA k : Byte(a, k) < Byte(b, k)))

\* digits lo..hi of a + m * b with a carry in: <<carry out, digits>>
RECURSIVE AxpyRange(_, _, _, _, _, _)
AxpyRange(a, b, m, lo, hi, carry) ==
    IF lo = hi
    THEN Only({ <<d \div 256, <<d % 256>> >> : d \in {Byte(a, lo) + (m * Byte(b, lo)) + carry} })
    ELSE Only({ Only({ <<right[1], left[2] \o right[2]>> :
                       right \in {AxpyRange(a, b, m, ((lo + hi) \div 2) + 1, hi, left[1])} }) :
                left \in {AxpyRange(a, b, m, lo, (lo + hi) \div 2, carry)} })
\* a + m * b on n digits (the caller knows that it fits and is not negative)
Axpy(a0, b0, m, n) == Only({ AxpyRange(ab[1], ab[2], m, 1, n, 0)[2] : ab \in {<<a0, b0>>} })

\* x mod l for 0 <= x < 2^13 * l: the quotient is the top bits of x, or one less
ModSmallV(x) ==
    Only({ Only({ SubSeq(IF Lt(t, BASEPOINT_ORDER) THEN t
                         ELSE Axpy(t, BASEPOINT_ORDER, 0 - 1, 34), 1, 32) :
                  t \in {Axpy(x, BASEPOINT_ORDER, 0 - q, 34)} }) :
           q \in { LET qh == (Byte(x, 34) * 4096) + (Byte(x, 33) * 16) + (Byte(x, 32) \div 16)
                   IN IF qh = 0 THEN 0 ELSE qh - 1 } })
ModSmall(x0) == Only({ ModSmallV(x) : x \in {x0} })

RECURSIVE ReduceRange(_, _, _, _)
ReduceRange(x, lo, hi, r) ==
    IF lo = hi THEN ModSmall(<<x[lo]>> \o r)
    ELSE Only({ ReduceRange(x, lo, (lo + hi) \div 2, r1) :
                r1 \in {ReduceRange(x, ((lo + hi) \div 2) + 1, hi, r)} })
\* Scalar::from_bytes_mod_order and from_bytes_mod_order_wide: x mod l, x of 32 or 64 bytes
\* (32 bytes below l are their own remainder)
ScalarReduce(x0) ==
    Only({ IF Len(x) = 32 /\ Lt(x, BASEPOINT_ORDER) THEN x
           ELSE ReduceRange(x, 1, Len(x), Zeros(32)) : x \in {x0} })

RECURSIVE MulRange(_, _, _, _, _)
MulRange(a, b, lo, hi, r) ==
    IF lo = hi THEN ModSmall(Axpy(<<0>> \o r, b, a[lo], 34))
    ELSE Only({ MulRange(a, b, lo, (lo + hi) \div 2, r1) :
                r1 \in {MulRange(a, b, ((lo + hi) \div 2) + 1, hi, r)} })
\* &a * &b on Scalars: (a * b) mod l
ScalarMul(a0, b0) ==
    Only({ MulRange(ab[1], ab[2], 1, 32, Zeros(32)) : ab \in {<<a0, ScalarReduce(b0)>>} })
\* a sum that is left as it is, without the reduction (not what the code does)
ScalarAdd_unreduced(a0, b0) == SubSeq(Axpy(a0, b0, 1, 34), 1, 32)

\* &a + &b on Scalars: (a + b) mod l
ScalarAdd(a0, b0) == ModSmall(Axpy(a0, b0, 1, 34))
\* -a mod l for a canonical a
ScalarNeg(a0) == ModSmall(Axpy(BASEPOINT_ORDER, a0, 0 - 1, 34))

\* Scalar::from_bits: the bytes as they are, with the top bit cleared
ScalarFromBits(bytes) == [bytes EXCEPT ![32] = And8(bytes[32], 127)]
\* Scalar::is_canonical: the scalar is its own reduction
IsCanonical(bytes) == bytes = ScalarReduce(bytes)
\* Scalar::from_canonical_bytes: None unless the top bit is clear and the value is reduced
ScalarFromCanonicalBytes(bytes) ==
    IF bytes[32] \div 128 = 0 /\ IsCanonical(ScalarFromBits(bytes))
    THEN Ok(ScalarFromBits(bytes)) ELSE Err("None")

----------------------------------------------------------------------------
(* curve25519-dalek points.  A point of the prime-order subgroup is held   *)
(* as the canonical scalar p with point = p * basepoint.                    *)

\* &scalar * &ED25519_BASEPOINT_TABLE
BasepointMul(scalar) == ScalarReduce(scalar)
\* scalar * point
PointMul(scalar, point) == ScalarMul(scalar, point)
\* -point
PointNeg(point) == ScalarNeg(point)
\* EdwardsPoint::vartime_double_scalar_mul_basepoint(a, A, b) = a * A + b * basepoint
DoubleScalarMulBasepoint(a, A, b) == ScalarAdd(ScalarMul(a, A), ScalarReduce(b))
\* EdwardsPoint::compress: an injective 32-byte encoding
Compress(point) == Reverse(point)
\* CompressedEdwardsY::decompress: None for the strings that encode no point
Decompress(bytes) ==
    IF Lt(Reverse(bytes), BASEPOINT_ORDER) THEN Ok(Reverse(bytes)) ELSE Err("None")

----------------------------------------------------------------------------
(* Digests: deterministic stand-ins with the output length of the real one *)

RECURSIVE AbsorbRange(_, _, _, _)
AbsorbRange(data, lo, hi, st) ==
    IF lo > hi THEN st
    ELSE IF lo = hi
    THEN <<((st[1] * 31) + data[lo] + 1) % 32749, ((st[2] * 17) + data[lo] + 3) % 32719>>
    ELSE Only({ AbsorbRange(data, ((lo + hi) \div 2) + 1, hi, s1) :
                s1 \in {AbsorbRange(data, lo, (lo + hi) \div 2, st)} })
Squeeze(st, n) ==
    [i \in 1..n |-> ((st[1] * (i + 1)) + (st[2] * ((2 * i) + 1))
                     + (((st[1] + i) * (st[2] + 1)) % 251)) % 256]
Digest(tag, data0, n) ==
    Only({ Squeeze(AbsorbRange(data, 1, Len(data), <<tag, Len(data)>>), n) : data \in {data0} })

Keccak512(data) == Digest(1, data, 64)
Sha512(data) == Digest(2, data, 64)
Keccak256(data) == Digest(3, data, 32)
\* Scalar::from_hash: the 64-byte digest reduced modulo l
ScalarFromHash(digest) == ScalarReduce(digest)

----------------------------------------------------------------------------
(* core: hex text (a string is a sequence of one-character strings) *)

HexLower == <<"0", "1", "2", "3", "4", "5", "6", "7", "8", "9", "a", "b", "c", "d", "e", "f">>
HexUpper == <<"0", "1", "2", "3", "4", "5", "6", "7", "8", "9", "A", "B", "C", "D", "E", "F">>
HexChars == {HexLower[i] : i \in 1..16} \cup {HexUpper[i] : i \in 1..16}
HexValue(c) == (CHOOSE i \in 1..16 : HexLower[i] = c \/ HexUpper[i] = c) - 1

\* a test that lets the empty string through (not what the code does)
is_hex_or_empty(input) == \A i \in 1..Len(input) : input[i] \in HexChars

\* utils::is_hex: not empty and matching ^[a-fA-F0-9]+$
is_hex(input) == input # <<>> /\ \A i \in 1..Len(input) : input[i] \in HexChars
\* utils::hex_to_vec: hex::decode(data), a panic on an odd length or a non-hex character
hex_to_vec(data) ==
    IF Len(data) % 2 # 0 \/ \E i \in 1..Len(data) : data[i] \notin HexChars
    THEN Panic("Failed to decode hex data")
    ELSE Ok([i \in 1..(Len(data) \div 2) |->
               (16 * HexValue(data[(2 * i) - 1])) + HexValue(data[2 * i])])
\* format!("{:x}", key): two lower-case digits a byte
encode_hex(bytes) ==
    [i \in 1..(2 * Len(bytes)) |->
        IF i % 2 = 1 THEN HexLower[(bytes[(i + 1) \div 2] \div 16) + 1]
        ELSE HexLower[(bytes[i \div 2] % 16) + 1]]
\* PrivateKey::from_str (fixed-hash): an optional 0x, then exactly 64 hex digits
PrivateKey_from_str(input) ==
    Let(IF Len(input) >= 2 /\ input[1] = "0" /\ input[2] = "x"
        THEN SubSeq(input, 3, Len(input)) ELSE input,
        LAMBDA s : IF Len(s) # 2 * KEY_BYTES_SIZE \/ \E i \in 1..Len(s) : s[i] \notin HexChars
                   THEN Err("Invalid input length or character")
                   ELSE hex_to_vec(s))

----------------------------------------------------------------------------
(* crypto-nis1: internal keys and signatures *)

\* a fast path that looks at the top three bits only (not what the code does)
check_scalar_top3(bytes) ==
    IF And8(bytes[32], 224) = 0 THEN Ok(ScalarFromBits(bytes))
    ELSE Let(ScalarFromCanonicalBytes(bytes),
             LAMBDA x : IF x.kind = "ok" THEN x ELSE Err("ScalarFormatError"))

\* lib.rs check_scalar
check_scalar(bytes) ==
    IF And8(bytes[32], 240) = 0 THEN Ok(ScalarFromBits(bytes))
    ELSE Let(ScalarFromCanonicalBytes(bytes),
             LAMBDA x : IF x.kind = "ok" THEN x ELSE Err("ScalarFormatError"))

\* InternalSignature::to_bytes
InternalSignature_to_bytes(self) == self.R \o self.s

\* InternalSignature::from_bytes
InternalSignature_from_bytes(bytes) ==
    IF Len(bytes) # SIGNATURE_LENGTH THEN Err("BytesLengthError")
    ELSE Let(Slice(bytes, 0, 32), LAMBDA lower :
         Let(Slice(bytes, 32, 64), LAMBDA upper :
         Let(check_scalar(upper), LAMBDA x :
             IF x.kind = "ok" THEN Ok([R |-> lower, s |-> x.value]) ELSE x)))

\* the expansion without the reversal of the secret key (not what the code does)
ExpandedPrivateKey_from_unreversed(secret_key) ==
    Let(Keccak512(secret_key), LAMBDA hash :
        [key |-> ScalarFromBits([Slice(hash, 0, 32) EXCEPT ![1] = And8(@, 248),
                                                           ![32] = Or8(And8(@, 63), 64)]),
         nonce |-> Slice(hash, 32, 64)])

\* a clamp that leaves bit 6 of the last byte clear (not what the code does)
ExpandedPrivateKey_lower_unset(hash) ==
    Let(Slice(hash, 0, 32), LAMBDA lower :
    Let([lower EXCEPT ![1] = And8(@, 248)], LAMBDA lower1 :
        [lower1 EXCEPT ![32] = And8(@, 63)]))

\* impl From<&PrivateKey> for ExpandedPrivateKey: lower, as it is given to Scalar::from_bits
ExpandedPrivateKey_lower(hash) ==
    Let(Slice(hash, 0, 32), LAMBDA lower :
    Let([lower EXCEPT ![1] = And8(@, 248)], LAMBDA lower1 :
    Let([lower1 EXCEPT ![32] = And8(@, 63)], LAMBDA lower2 :
        [lower2 EXCEPT ![32] = Or8(@, 64)])))

\* impl From<&PrivateKey> for ExpandedPrivateKey
ExpandedPrivateKey_from(secret_key) ==
    Let(Keccak512(Reverse(secret_key)), LAMBDA hash :
    Let(Slice(hash, 32, 64), LAMBDA upper :
        [key |-> ScalarFromBits(ExpandedPrivateKey_lower(hash)), nonce |-> upper]))

\* a signature whose k hashes the public key before R (not what the code does)
ExpandedPrivateKey_sign_key_first(self, message, public_key) ==
    Let(ScalarFromHash(Keccak512(self.nonce \o message)), LAMBDA r :
    Let(Compress(BasepointMul(r)), LAMBDA R :
    Let(ScalarFromHash(Keccak512(public_key \o R \o message)), LAMBDA k :
    Let(ScalarAdd(ScalarMul(k, self.key), r), LAMBDA s :
        InternalSignature_to_bytes([R |-> R, s |-> s])))))

\* ExpandedPrivateKey::sign
ExpandedPrivateKey_sign(self, message, public_key) ==
    Let(ScalarFromHash(Keccak512(self.nonce \o message)), LAMBDA r :
    Let(Compress(BasepointMul(r)), LAMBDA R :
    Let(ScalarFromHash(Keccak512(R \o public_key \o message)), LAMBDA k :
    Let(ScalarAdd(ScalarMul(k, self.key), r), LAMBDA s :
        InternalSignature_to_bytes([R |-> R, s |-> s])))))

\* the bits that function leaves in place behind its &mut argument
mangle_scalar_bits(bits) ==
    Let([bits EXCEPT ![1] = And8(@, 248)], LAMBDA bits1 :
    Let([bits1 EXCEPT ![32] = And8(@, 127)], LAMBDA bits2 :
        [bits2 EXCEPT ![32] = Or8(@, 64)]))

\* InternalPublicKey::mangle_scalar_bits_and_multiply_by_basepoint_to_produce_public_key
mangle_scalar_bits_and_multiply_by_basepoint_to_produce_public_key(bits) ==
    Let(BasepointMul(ScalarFromBits(mangle_scalar_bits(bits))), LAMBDA point :
        [compressed |-> Compress(point), point |-> point])

\* impl From<PrivateKey> for InternalPublicKey
InternalPublicKey_from_private_key(private_key) ==
    Let(Keccak512(Reverse(private_key)), LAMBDA hash :
    Let(Slice(hash, 0, 32), LAMBDA digest :
        mangle_scalar_bits_and_multiply_by_basepoint_to_produce_public_key(digest)))

\* impl From<PublicKey> for InternalPublicKey: unwrap() of the decompression
InternalPublicKey_from_public_key(public_key) ==
    Let(Decompress(public_key), LAMBDA point :
        IF point.kind = "ok" THEN Ok([compressed |-> public_key, point |-> point.value])
        ELSE Panic("PointDecompressionError"))

\* the k of InternalPublicKey::verify: the digest of signature.R, self.as_bytes() and
\* the message, in the order of the three h.update calls
InternalPublicKey_verify_k(self, message, R) ==
    ScalarFromHash(Keccak512(R \o self.compressed \o message))

\* a verification that parses the signature and compares nothing (not what the code does)
InternalPublicKey_verify_uncompared(self, message, signature) ==
    Let(InternalSignature_from_bytes(signature), LAMBDA parsed :
        IF parsed.kind # "ok" THEN Err("SignatureError") ELSE Ok(<<>>))

\* impl Verifier<Signature> for InternalPublicKey
InternalPublicKey_verify(self, message, signature) ==
    Let(InternalSignature_from_bytes(signature), LAMBDA parsed :
        IF parsed.kind # "ok" THEN Err("SignatureError")
        ELSE Let(PointNeg(self.point), LAMBDA minus_A :
             Let(InternalPublicKey_verify_k(self, message, parsed.value.R), LAMBDA k :
             Let(DoubleScalarMulBasepoint(k, minus_A, parsed.value.s), LAMBDA R :
                 IF Compress(R) = parsed.value.R THEN Ok(<<>>) ELSE Err("SignatureError")))))

----------------------------------------------------------------------------
(* ed25519-dalek, as crypto-sym calls it *)

\* ed25519::SecretKey::from_bytes
SecretKey_from_bytes(bytes) ==
    IF Len(bytes) # KEY_BYTES_SIZE THEN Err("BytesLengthError") ELSE Ok(bytes)

\* impl From<&SecretKey> for ed25519::PublicKey
PublicKey_from_secret(secret_key) ==
    Let(Sha512(secret_key), LAMBDA hash :
    Let(Slice(hash, 0, 32), LAMBDA bits :
    Let([bits EXCEPT ![1] = And8(@, 248)], LAMBDA bits1 :
    Let([bits1 EXCEPT ![32] = And8(@, 127)], LAMBDA bits2 :
    Let([bits2 EXCEPT ![32] = Or8(@, 64)], LAMBDA bits3 :
    Let(BasepointMul(ScalarFromBits(bits3)), LAMBDA point :
        [compressed |-> Compress(point), point |-> point]))))))

\* ed25519::PublicKey::from_bytes
PublicKey_from_bytes(bytes) ==
    IF Len(bytes) # KEY_BYTES_SIZE THEN Err("BytesLengthError")
    ELSE Let(Decompress(bytes), LAMBDA point :
             IF point.kind = "ok" THEN Ok([compressed |-> bytes, point |-> point.value])
             ELSE Err("PointDecompressionError"))

\* ed25519::Keypair::from_bytes: both halves parsed, their correspondence not checked
DalekKeypair_from_bytes(bytes) ==
    IF Len(bytes) # KEYPAIR_LENGTH THEN Err("BytesLengthError")
    ELSE Let(SecretKey_from_bytes(Slice(bytes, 0, KEY_BYTES_SIZE)), LAMBDA secret :
         Let(PublicKey_from_bytes(Slice(bytes, KEY_BYTES_SIZE, KEYPAIR_LENGTH)), LAMBDA public :
             IF secret.kind # "ok" THEN secret
             ELSE IF public.kind # "ok" THEN public
             ELSE Ok([secret |-> secret.value, public |-> public.value])))

\* impl From<&SecretKey> for ed25519::ExpandedSecretKey
ExpandedSecretKey_from(secret_key) ==
    Let(Sha512(secret_key), LAMBDA hash :
    Let(Slice(hash, 0, 32), LAMBDA lower :
    Let(Slice(hash, 32, 64), LAMBDA upper :
    Let([lower EXCEPT ![1] = And8(@, 248)], LAMBDA lower1 :
    Let([lower1 EXCEPT ![32] = And8(@, 63)], LAMBDA lower2 :
    Let([lower2 EXCEPT ![32] = Or8(@, 64)], LAMBDA lower3 :
        [key |-> ScalarFromBits(lower3), nonce |-> upper]))))))

\* ed25519::ExpandedSecretKey::sign
ExpandedSecretKey_sign(self, message, public_key) ==
    Let(ScalarFromHash(Sha512(self.nonce \o message)), LAMBDA r :
    Let(Compress(BasepointMul(r)), LAMBDA R :
    Let(ScalarFromHash(Sha512(R \o public_key.compressed \o message)), LAMBDA k :
    Let(ScalarAdd(ScalarMul(k, self.key), r), LAMBDA s :
        R \o s))))

\* ed25519::Signature::try_from: 64 bytes with the top three bits of the last one clear,
\* or signature::Error::new()
DalekSignature_try_from(bytes) ==
    IF Len(bytes) # SIGNATURE_LENGTH \/ And8(bytes[SIGNATURE_LENGTH], 224) # 0
    THEN Err("SignatureError") ELSE Ok(bytes)

\* impl Verifier<ed25519::Signature> for ed25519::PublicKey.  Its errors are
\* signature::Error::from_source(InternalError::ScalarFormatError) and
\* from_source(InternalError::VerifyError): the error value names its cause
DalekPublicKey_verify(self, message, signature) ==
    Let(Slice(signature, 32, 64), LAMBDA upper :
    Let(IF And8(upper[32], 240) = 0 THEN Ok(ScalarFromBits(upper))
        ELSE ScalarFromCanonicalBytes(upper), LAMBDA s :
        IF s.kind # "ok" THEN Err("SignatureError: ScalarFormatError")
        ELSE Let(Slice(signature, 0, 32), LAMBDA sigR :
             Let(PointNeg(self.point), LAMBDA minus_A :
             Let(ScalarFromHash(Sha512(sigR \o self.compressed \o message)), LAMBDA k :
             Let(DoubleScalarMulBasepoint(k, minus_A, s.value), LAMBDA R :
                 IF Compress(R) = sigR THEN Ok(<<>>)
                 ELSE Err("SignatureError: VerifyError")))))))

----------------------------------------------------------------------------
(* Keypair: the two KeyPairSchema implementations *)

NoKeypair == [variant |-> "none", private_key |-> <<>>, public_key |-> <<>>]
Nis1Keypair(private_key, public_key) ==
    [variant |-> "nis1", private_key |-> private_key, public_key |-> public_key]
SymKeypair(private_key, public_key) ==
    [variant |-> "sym", private_key |-> private_key, public_key |-> public_key]

\* KeyPairSchema::to_bytes and Keypair::to_bytes
to_bytes(self) == self.private_key \o self.public_key

\* crypto-nis1 Keypair::random, with the bytes PrivateKey::random() drew
Nis1_random(private_key) ==
    Nis1Keypair(private_key, InternalPublicKey_from_private_key(private_key).compressed)

\* crypto-nis1 Keypair::from_bytes
Nis1_from_bytes(bytes) ==
    Let(DalekKeypair_from_bytes(bytes), LAMBDA dalek :
        IF dalek.kind # "ok" THEN dalek
        ELSE Ok(Nis1Keypair(dalek.value.secret, dalek.value.public.compressed)))

\* a constructor that derives the public key without reversing the secret key
\* (not what the code does)
Nis1_from_hex_private_key_unreversed(hex) ==
    IF ~is_hex(hex) THEN Err("private_key it's not hex.")
    ELSE IF KEY_STR_SIZE # Len(hex) THEN Err("private key has unexpected size")
    ELSE Let(PrivateKey_from_str(hex), LAMBDA private_key :
             IF private_key.kind # "ok" THEN private_key
             ELSE After(1, Ok(Nis1Keypair(private_key.value,
                      InternalPublicKey_from_private_key(Reverse(private_key.value)).compressed))))

\* crypto-nis1 Keypair::from_hex_private_key
Nis1_from_hex_private_key(hex) ==
    IF ~is_hex(hex) THEN Err("private_key it's not hex.")
    ELSE IF KEY_STR_SIZE # Len(hex) THEN Err("private key has unexpected size")
    ELSE Let(PrivateKey_from_str(hex), LAMBDA private_key :
             IF private_key.kind # "ok" THEN private_key
             ELSE After(1, Ok(Nis1Keypair(private_key.value,
                      InternalPublicKey_from_private_key(private_key.value).compressed))))

\* a constructor that hashes the secret key as the Symbol variant does, unreversed
\* (not what the code does)
Nis1_from_private_key_as_given(pk) ==
    Nis1Keypair(pk, InternalPublicKey_from_private_key(Reverse(pk)).compressed)

\* crypto-nis1 Keypair::from_private_key
Nis1_from_private_key(pk) ==
    Nis1Keypair(pk, InternalPublicKey_from_private_key(pk).compressed)

\* crypto-nis1 Keypair::sign
Nis1_sign(self, data) ==
    Let(ExpandedPrivateKey_from(self.private_key), LAMBDA expanded_sk :
        Ok(ExpandedPrivateKey_sign(expanded_sk, data, self.public_key)))

\* a verification of the signature against no data (not what the code does)
Nis1_verify_without_data(self, data, signature) ==
    Let(InternalPublicKey_from_public_key(self.public_key), LAMBDA pk :
        IF pk.kind # "ok" THEN pk
        ELSE IF InternalSignature_from_bytes(signature).kind = "ok" THEN Ok(<<>>)
        ELSE Err("SignatureError"))

\* crypto-nis1 Keypair::verify
Nis1_verify(self, data, signature) ==
    Let(InternalPublicKey_from_public_key(self.public_key), LAMBDA pk :
        IF pk.kind # "ok" THEN pk ELSE InternalPublicKey_verify(pk.value, data, signature))

\* crypto-nis1 Keypair::from_null_private_key
Nis1_from_null_private_key(pk) == Nis1Keypair(Zeros(KEY_BYTES_SIZE), pk)

\* crypto-sym Keypair::random, with the bytes SecretKey::generate drew
Sym_random(sk) == SymKeypair(sk, PublicKey_from_secret(sk).compressed)

\* crypto-sym Keypair::from_hex_private_key
Sym_from_hex_private_key(hex) ==
    IF ~is_hex(hex) THEN Err("private_key it's not hex.")
    ELSE IF KEY_STR_SIZE # Len(hex) THEN Err("private key has unexpected size")
    ELSE Let(hex_to_vec(hex), LAMBDA bytes :
         Let(IF bytes.kind = "ok" THEN SecretKey_from_bytes(bytes.value) ELSE bytes, LAMBDA sk :
             IF sk.kind # "ok" THEN sk
             ELSE After(1, Ok(SymKeypair(sk.value, PublicKey_from_secret(sk.value).compressed)))))

\* crypto-sym impl From<PrivateKey> for Keypair: from_hex_private_key(format!("{:x}", sk)).unwrap()
Sym_from(sk) ==
    Let(Sym_from_hex_private_key(encode_hex(sk)), LAMBDA r :
        IF r.kind = "ok" THEN r ELSE Panic(r.error))

\* crypto-sym Keypair::from_bytes
Sym_from_bytes(bytes) ==
    Let(DalekKeypair_from_bytes(bytes), LAMBDA dalek :
        IF dalek.kind # "ok" THEN dalek ELSE Sym_from(dalek.value.secret))

\* crypto-sym Keypair::from_private_key
Sym_from_private_key(pk) ==
    Let(SecretKey_from_bytes(pk), LAMBDA sk :
        SymKeypair(sk.value, PublicKey_from_secret(sk.value).compressed))

\* crypto-sym Keypair::sign: unwrap() of ed25519::Keypair::from_bytes(&self.to_bytes())
Sym_sign(self, data) ==
    Let(DalekKeypair_from_bytes(to_bytes(self)), LAMBDA dalek :
        IF dalek.kind # "ok" THEN Panic(dalek.error)
        ELSE Let(ExpandedSecretKey_from(dalek.value.secret), LAMBDA expanded_sk :
                 Ok(ExpandedSecretKey_sign(expanded_sk, data, dalek.value.public))))

\* a verification that stops once the key and the signature have parsed
\* (not what the code does)
Sym_verify_parsed_only(self, data, signature) ==
    Let(PublicKey_from_bytes(self.public_key), LAMBDA pk :
    Let(DalekSignature_try_from(signature), LAMBDA parsed :
        IF pk.kind # "ok" THEN pk
        ELSE IF parsed.kind # "ok" THEN parsed
        ELSE Ok(<<>>)))

\* crypto-sym Keypair::verify
Sym_verify(self, data, signature) ==
    Let(PublicKey_from_bytes(self.public_key), LAMBDA pk :
    Let(DalekSignature_try_from(signature), LAMBDA parsed :
        IF pk.kind # "ok" THEN pk
        ELSE IF parsed.kind # "ok" THEN parsed
        ELSE DalekPublicKey_verify(pk.value, data, parsed.value)))

\* crypto-sym Keypair::from_null_private_key
Sym_from_null_private_key(pk) == SymKeypair(Zeros(KEY_BYTES_SIZE), pk)

(* Keypair<Kp>: the wrapper of src/keypair.rs, Kp chosen by the variant *)

Keypair_random(variant, bytes) ==
    IF variant = "nis1" THEN Nis1_random(bytes) ELSE Sym_random(bytes)
Keypair_from_bytes(variant, bytes) ==
    IF variant = "nis1" THEN Nis1_from_bytes(bytes) ELSE Sym_from_bytes(bytes)
Keypair_from_hex_private_key(variant, hex) ==
    IF variant = "nis1" THEN Nis1_from_hex_private_key(hex) ELSE Sym_from_hex_private_key(hex)
Keypair_from_private_key(variant, private_key) ==
    IF variant = "nis1" THEN Nis1_from_private_key(private_key)
    ELSE Sym_from_private_key(private_key)
Keypair_from_null_private_key(variant, pk) ==
    IF variant = "nis1" THEN Nis1_from_null_private_key(pk) ELSE Sym_from_null_private_key(pk)
Keypair_sign(self, data) ==
    IF self.variant = "nis1" THEN Nis1_sign(self, data) ELSE Sym_sign(self, data)
Keypair_verify(self, data, signature) ==
    IF self.variant = "nis1" THEN Nis1_verify(self, data, signature)
    ELSE Sym_verify(self, data, signature)

----------------------------------------------------------------------------
(* core: the shared secret of the two ciphers *)

\* D::digest for the digest the variant names
DigestOf(D, data) == IF D = "Keccak512" THEN Keccak512(data) ELSE Sha512(data)

\* block_cipher.rs scalar_from_sk: sk_hash_fix, as it is given to Scalar::from_bits
sk_hash_fix(sk_hash) ==
    Let(Slice(sk_hash, 0, 32), LAMBDA fix0 :
    Let([fix0 EXCEPT ![1] = And8(@, 248)], LAMBDA fix1 :
    Let([fix1 EXCEPT ![32] = And8(@, 127)], LAMBDA fix2 :
        [fix2 EXCEPT ![32] = Or8(@, 64)])))

\* a scalar taken from the upper half of the digest (not what the code does)
scalar_from_sk_upper_half(D, secret_key) ==
    ScalarFromBits(sk_hash_fix(Slice(DigestOf(D, secret_key), 32, 64) \o Zeros(32)))

\* block_cipher.rs scalar_from_sk
scalar_from_sk(D, secret_key) == ScalarFromBits(sk_hash_fix(DigestOf(D, secret_key)))

\* block_cipher.rs derive_shared_secret: unwrap() of the decompression
derive_shared_secret(D, secret_key, public_key) ==
    Let(Decompress(public_key), LAMBDA public :
        IF public.kind # "ok" THEN Panic("called Option::unwrap() on a None value")
        ELSE Let(scalar_from_sk(D, secret_key), LAMBDA secret :
             Let(PointMul(secret, public.value), LAMBDA shared_point :
                 Ok(Compress(shared_point)))))

\* utils::random_bytes: the n bytes the generator returns on its d-th possible draw
random_bytes(n, d) == [i \in 1..n |-> ((d * 97) + (i * 13) + n) % 256]

----------------------------------------------------------------------------
(* AES-256 as the ciphers use it: a keyed permutation of 16-byte blocks *)

\* one AES block, the length of the CBC initialisation vector
BLOCK_SIZE == NIS_AES_IV_LENGTH
XorBlock(a, b) == [i \in 1..Len(a) |-> Xor8(a[i], b[i])]
AesEncryptBlock(key, block) ==
    [i \in 1..BLOCK_SIZE |-> (block[(BLOCK_SIZE + 1) - i] + key[i] + (3 * key[i + BLOCK_SIZE])) % 256]
AesDecryptBlock(key, block) ==
    [i \in 1..BLOCK_SIZE |->
        (block[(BLOCK_SIZE + 1) - i] + (1024 - (key[(BLOCK_SIZE + 1) - i]
            + (3 * key[((BLOCK_SIZE + 1) - i) + BLOCK_SIZE])))) % 256]

\* Pkcs7::pad: 1 to 16 bytes, each the number of bytes added
Pkcs7_pad(data) ==
    Let(BLOCK_SIZE - (Len(data) % BLOCK_SIZE), LAMBDA n :
        data \o [i \in 1..n |-> n])
\* Pkcs7::unpad
Pkcs7_unpad(data) ==
    IF data = <<>> THEN Err("UnpadError")
    ELSE Let(data[Len(data)], LAMBDA l :
             IF l = 0 \/ l > Len(data) THEN Err("UnpadError")
             ELSE IF \E i \in (Len(data) - l) + 1..Len(data) - 1 : data[i] # l
             THEN Err("UnpadError")
             ELSE Ok(SubSeq(data, 1, Len(data) - l)))

\* CBC over whole blocks: each block is xored with the previous ciphertext block
RECURSIVE CbcEncryptBlocks(_, _, _)
CbcEncryptBlocks(key, prev, data) ==
    IF data = <<>> THEN <<>>
    ELSE Only({ c \o CbcEncryptBlocks(key, c, SubSeq(data, BLOCK_SIZE + 1, Len(data))) :
                c \in {AesEncryptBlock(key, XorBlock(SubSeq(data, 1, BLOCK_SIZE), prev))} })
RECURSIVE CbcDecryptBlocks(_, _, _)
CbcDecryptBlocks(key, prev, data) ==
    IF data = <<>> THEN <<>>
    ELSE XorBlock(AesDecryptBlock(key, SubSeq(data, 1, BLOCK_SIZE)), prev)
         \o CbcDecryptBlocks(key, SubSeq(data, 1, BLOCK_SIZE),
                             SubSeq(data, BLOCK_SIZE + 1, Len(data)))

\* Cbc<Aes256, Pkcs7>::encrypt_vec
Aes256Cbc_encrypt_vec(key, iv, msg) == CbcEncryptBlocks(key, iv, Pkcs7_pad(msg))
\* Cbc<Aes256, Pkcs7>::decrypt_vec
Aes256Cbc_decrypt_vec(key, iv, enc_msg) ==
    IF Len(enc_msg) % BLOCK_SIZE # 0 THEN Err("BlockModeError")
    ELSE Let(Pkcs7_unpad(CbcDecryptBlocks(key, iv, enc_msg)), LAMBDA r :
             IF r.kind = "ok" THEN r ELSE Err("BlockModeError"))

\* AES-GCM: counter-mode key stream and a 16-byte tag over the nonce and the ciphertext
GcmKeystream(key, iv, n) ==
    Let([j \in 1..((n + (BLOCK_SIZE - 1)) \div BLOCK_SIZE) |->
            AesEncryptBlock(key, iv \o <<0, 0, 0, j + 1>>)], LAMBDA blocks :
        [i \in 1..n |-> blocks[((i - 1) \div BLOCK_SIZE) + 1][((i - 1) % BLOCK_SIZE) + 1]])
GcmTag(key, iv, ciphertext) == AesEncryptBlock(key, Digest(5, iv \o ciphertext, BLOCK_SIZE))
\* Aes256Gcm::encrypt_in_place_detached with no associated data: <<ciphertext, tag>>
Aes256Gcm_encrypt_detached(key, iv, msg) ==
    Let(XorBlock(msg, GcmKeystream(key, iv, Len(msg))), LAMBDA ciphertext :
        <<ciphertext, GcmTag(key, iv, ciphertext)>>)
\* Aes256Gcm::decrypt of ciphertext || tag
Aes256Gcm_decrypt(key, iv, enc_msg) ==
    IF Len(enc_msg) < BLOCK_SIZE THEN Err("aead::Error")
    ELSE Let(SubSeq(enc_msg, 1, Len(enc_msg) - BLOCK_SIZE), LAMBDA ciphertext :
         Let(SubSeq(enc_msg, (Len(enc_msg) - BLOCK_SIZE) + 1, Len(enc_msg)), LAMBDA tag :
             IF GcmTag(key, iv, ciphertext) # tag THEN Err("aead::Error")
             ELSE Ok(XorBlock(ciphertext, GcmKeystream(key, iv, Len(ciphertext))))))

----------------------------------------------------------------------------
(* crypto-nis1 cipher.rs: AES-256-CBC under a salted shared key *)

\* keccak_256.rs keccak256
keccak256(data) == Keccak256(data)

\* the derivation without the reversal of the secret key (not what the code does)
Nis1_derive_shared_key_unreversed(salt, secret_key, public_key) ==
    Let(derive_shared_secret("Keccak512", secret_key, public_key), LAMBDA shared_secret :
        IF shared_secret.kind # "ok" THEN shared_secret
        ELSE Ok(keccak256(XorBlock(shared_secret.value, salt))))

\* crypto-nis1 derive_shared_key
Nis1_derive_shared_key(salt, secret_key, public_key) ==
    Let(derive_shared_secret("Keccak512", Reverse(secret_key), public_key), LAMBDA shared_secret :
        IF shared_secret.kind # "ok" THEN shared_secret
        ELSE Ok(keccak256(XorBlock(shared_secret.value, salt))))

\* crypto-nis1 encrypt
Nis1_encrypt(iv, derive_key, msg) ==
    IF Len(derive_key) # KEY_BYTES_SIZE \/ Len(iv) # BLOCK_SIZE THEN Err("InvalidKeyIvLength")
    ELSE Ok(Aes256Cbc_encrypt_vec(derive_key, iv, msg))

\* a decryption that answers a cipher error with an empty plaintext (not what the code does)
Nis1_decrypt_lenient(iv, derive_key, enc_msg) ==
    IF Len(derive_key) # KEY_BYTES_SIZE \/ Len(iv) # BLOCK_SIZE THEN Err("InvalidKeyIvLength")
    ELSE Let(Aes256Cbc_decrypt_vec(derive_key, iv, enc_msg), LAMBDA decrypted :
             IF decrypted.kind = "ok" THEN decrypted ELSE Ok(<<>>))

\* crypto-nis1 decrypt
Nis1_decrypt(iv, derive_key, enc_msg) ==
    IF Len(derive_key) # KEY_BYTES_SIZE \/ Len(iv) # BLOCK_SIZE THEN Err("InvalidKeyIvLength")
    ELSE Aes256Cbc_decrypt_vec(derive_key, iv, enc_msg)

\* an envelope with the iv before the salt (not what the code does)
Nis1_encrypt_message_iv_first(signer_sk, receiver_pk, msg, iv, salt) ==
    Let(Nis1_derive_shared_key(salt, signer_sk, receiver_pk), LAMBDA derive_key :
        IF derive_key.kind # "ok" THEN After(1, derive_key)
        ELSE After(2, Ok(iv \o salt \o Nis1_encrypt(iv, derive_key.value, msg).value)))

\* CryptoNis1::encrypt_message, with the iv and the salt random_bytes returned
Nis1_encrypt_message(signer_sk, receiver_pk, msg, iv, salt) ==
    Let(Nis1_derive_shared_key(salt, signer_sk, receiver_pk), LAMBDA derive_key :
        IF derive_key.kind # "ok" THEN After(1, derive_key)
        ELSE Let(Nis1_encrypt(iv, derive_key.value, msg), LAMBDA encrypted :
                 IF encrypted.kind # "ok" THEN After(2, encrypted)
                 ELSE After(2, Ok(salt \o iv \o encrypted.value))))

\* a decryption that looks for the iv before the salt (not what the code does)
Nis1_decrypt_message_iv_first(receiver_sk, signer_pk, enc_msg) ==
    IF enc_msg = <<>> THEN Err("msg cannot be empty")
    ELSE IF Len(enc_msg) < NIS_SALT_LENGTH + NIS_AES_IV_LENGTH
    THEN Panic("range end index out of range for slice")
    ELSE Let(Slice(enc_msg, 0, NIS_AES_IV_LENGTH), LAMBDA iv_bytes :
         Let(Slice(enc_msg, NIS_AES_IV_LENGTH, NIS_AES_IV_LENGTH + NIS_SALT_LENGTH), LAMBDA salt_bytes :
         Let(Slice(enc_msg, NIS_SALT_LENGTH + NIS_AES_IV_LENGTH, Len(enc_msg)), LAMBDA enc_msg_bytes :
         Let(Nis1_derive_shared_key(salt_bytes, receiver_sk, signer_pk), LAMBDA enc_key :
             IF enc_key.kind # "ok" THEN After(1, enc_key)
             ELSE After(2, Nis1_decrypt(iv_bytes, enc_key.value, enc_msg_bytes))))))

\* CryptoNis1::decrypt_message
Nis1_decrypt_message(receiver_sk, signer_pk, enc_msg) ==
    IF enc_msg = <<>> THEN Err("msg cannot be empty")
    ELSE IF Len(enc_msg) < NIS_SALT_LENGTH + NIS_AES_IV_LENGTH
    THEN Panic("range end index out of range for slice")
    ELSE Let(Slice(enc_msg, NIS_SALT_LENGTH, NIS_SALT_LENGTH + NIS_AES_IV_LENGTH), LAMBDA iv_bytes :
         Let(Slice(enc_msg, 0, NIS_SALT_LENGTH), LAMBDA salt_bytes :
         Let(Slice(enc_msg, NIS_SALT_LENGTH + NIS_AES_IV_LENGTH, Len(enc_msg)), LAMBDA enc_msg_bytes :
         Let(Nis1_derive_shared_key(salt_bytes, receiver_sk, signer_pk), LAMBDA enc_key :
             IF enc_key.kind # "ok" THEN After(1, enc_key)
             ELSE After(2, Nis1_decrypt(iv_bytes, enc_key.value, enc_msg_bytes))))))

----------------------------------------------------------------------------
(* crypto-sym cipher.rs: AES-256-GCM under an HKDF of the shared secret *)

HKDF_INFO == <<99, 97, 116, 97, 112, 117, 108, 116>>
\* hkdf_sha256.rs hkdf_sha256: HKDF-SHA256 with no salt, expanded to 32 bytes
hkdf_sha256(master) == Digest(4, master \o HKDF_INFO, KEY_BYTES_SIZE)

\* crypto-sym derive_shared_key
Sym_derive_shared_key(secret_key, public_key) ==
    Let(derive_shared_secret("Sha512", secret_key, public_key), LAMBDA shared_secret :
        IF shared_secret.kind # "ok" THEN shared_secret
        ELSE Ok(hkdf_sha256(shared_secret.value)))

\* crypto-sym encrypt: <<ciphertext, auth_tag>>
Sym_encrypt(iv, derive_key, msg) == Ok(Aes256Gcm_encrypt_detached(derive_key, iv, msg))

\* a decryption that never compares the tag (not what the code does)
Sym_decrypt_unauthenticated(iv, derive_key, enc_msg) ==
    Let(SubSeq(enc_msg, 1, Len(enc_msg) - AES_TAG_LENGTH), LAMBDA ciphertext :
        Ok(XorBlock(ciphertext, GcmKeystream(derive_key, iv, Len(ciphertext)))))

\* crypto-sym decrypt
Sym_decrypt(iv, derive_key, enc_msg) == Aes256Gcm_decrypt(derive_key, iv, enc_msg)

\* an envelope with the iv before the tag (not what the code does)
Sym_encrypt_message_iv_first(signer_sk, receiver_pk, msg, iv) ==
    Let(Sym_derive_shared_key(signer_sk, receiver_pk), LAMBDA derive_key :
        IF derive_key.kind # "ok" THEN After(1, derive_key)
        ELSE Let(Sym_encrypt(iv, derive_key.value, msg), LAMBDA r :
                 After(2, Ok(iv \o r.value[2] \o r.value[1]))))

\* CryptoSym::encrypt_message, with the iv random_bytes returned
Sym_encrypt_message(signer_sk, receiver_pk, msg, iv) ==
    Let(Sym_derive_shared_key(signer_sk, receiver_pk), LAMBDA derive_key :
        IF derive_key.kind # "ok" THEN After(1, derive_key)
        ELSE Let(Sym_encrypt(iv, derive_key.value, msg), LAMBDA r :
                 IF r.kind # "ok" THEN After(2, r)
                 ELSE After(2, Ok(r.value[2] \o iv \o r.value[1]))))

\* a decryption that derives the key before it looks at the envelope (not what the code does)
Sym_decrypt_message_derive_first(receiver_sk, signer_pk, enc_msg) ==
    Let(Sym_derive_shared_key(receiver_sk, signer_pk), LAMBDA enc_key :
        IF enc_key.kind # "ok" THEN After(1, enc_key)
        ELSE IF enc_msg = <<>> THEN After(1, Err("msg cannot be empty"))
        ELSE After(2, Sym_decrypt(Slice(enc_msg, AES_TAG_LENGTH, AES_TAG_LENGTH + SYM_AES_IV_LENGTH),
                                  enc_key.value,
                                  Slice(enc_msg, AES_TAG_LENGTH + SYM_AES_IV_LENGTH, Len(enc_msg))
                                  \o Slice(enc_msg, 0, AES_TAG_LENGTH))))

\* CryptoSym::decrypt_message
Sym_decrypt_message(receiver_sk, signer_pk, enc_msg) ==
    IF enc_msg = <<>> THEN Err("msg cannot be empty")
    ELSE IF Len(enc_msg) < AES_TAG_LENGTH + SYM_AES_IV_LENGTH
    THEN Panic("range end index out of range for slice")
    ELSE Let(Slice(enc_msg, AES_TAG_LENGTH, AES_TAG_LENGTH + SYM_AES_IV_LENGTH), LAMBDA iv_bytes :
         Let(Slice(enc_msg, 0, AES_TAG_LENGTH), LAMBDA tag :
         Let(Slice(enc_msg, AES_TAG_LENGTH + SYM_AES_IV_LENGTH, Len(enc_msg)) \o tag, LAMBDA msg_and_tag_bytes :
         Let(Sym_derive_shared_key(receiver_sk, signer_pk), LAMBDA enc_key :
             IF enc_key.kind # "ok" THEN After(1, enc_key)
             ELSE After(2, Sym_decrypt(iv_bytes, enc_key.value, msg_and_tag_bytes))))))

(* Keypair<Kp>::encrypt_message and decrypt_message of src/keypair.rs *)

Keypair_encrypt_message(self, receiver_pk, msg, iv, salt) ==
    IF self.variant = "nis1"
    THEN Nis1_encrypt_message(self.private_key, receiver_pk, msg, iv, salt)
    ELSE Sym_encrypt_message(self.private_key, receiver_pk, msg, iv)
Keypair_decrypt_message(self, signer_pk, enc_msg) ==
    IF self.variant = "nis1" THEN Nis1_decrypt_message(self.private_key, signer_pk, enc_msg)
    ELSE Sym_decrypt_message(self.private_key, signer_pk, enc_msg)

----------------------------------------------------------------------------
(* Inputs the caller may pass *)

Variants == {"sym", "nis1"}
PrivKey(k) == [i \in 1..KEY_BYTES_SIZE |-> ((k * 73) + (i * 29) + ((k * k * i) % 7)) % 256]
PrivateKeys == {PrivKey(k) : k \in 1..NumKeys}
MsgLen(j) == CASE j = 0 -> 0 [] j = 1 -> 16 [] j = 2 -> 5 [] j = 3 -> 17 [] OTHER -> 28 + j
Message(j) == [i \in 1..MsgLen(j) |-> ((j * 101) + (i * 7)) % 256]
Messages == {Message(j) : j \in 0..NumMsgs}
\* 32 bytes that decompress to a point, and 32 bytes that do not
NullPublicKeys == {Zeros(KEY_BYTES_SIZE), [i \in 1..KEY_BYTES_SIZE |-> 255]}
\* a signature no keypair of the model made
ForeignSignatures == {Zeros(SIGNATURE_LENGTH)}

----------------------------------------------------------------------------
(* The caller: construct a keypair, then sign and verify *)

Start ==
    /\ pc = "start" /\ kp = NoKeypair /\ origin = "none" /\ peer = NoKeypair
    /\ op = "none" /\ arg = <<>> /\ ret = NoResult /\ plain = <<>> /\ sig = <<>> /\ env = <<>> /\ drawn = <<>>

\* a constructor returned r: the caller holds the keypair, or the error
Constructed(name, input, r) ==
    /\ op' = name
    /\ arg' = input
    /\ ret' = IF r.kind = "ok" THEN After(r.ops, Ok(<<>>)) ELSE r
    /\ kp' = IF r.kind = "ok" THEN r.value ELSE NoKeypair
    /\ origin' = IF r.kind = "ok" THEN name ELSE "none"
    /\ pc' = IF r.kind = "ok" THEN "built" ELSE IF r.kind = "panic" THEN "aborted" ELSE "failed"
    /\ UNCHANGED <<peer, plain, sig, env, drawn>>

Random(variant, bytes) ==
    /\ pc = "start"
    /\ Constructed("random", [variant |-> variant], Ok(Keypair_random(variant, bytes)))

FromHexPrivateKey(variant, hex) ==
    /\ pc = "start"
    /\ Constructed("from_hex_private_key", [variant |-> variant, hex |-> hex],
                   Keypair_from_hex_private_key(variant, hex))

FromPrivateKey(variant, private_key) ==
    /\ pc = "start"
    /\ Constructed("from_private_key", [variant |-> variant, private_key |-> private_key],
                   Ok(Keypair_from_private_key(variant, private_key)))

FromNullPrivateKey(variant, pk) ==
    /\ pc = "start"
    /\ Constructed("from_null_private_key", [variant |-> variant, pk |-> pk],
                   Ok(Keypair_from_null_private_key(variant, pk)))

FromBytes(variant, bytes) ==
    /\ pc = "start"
    /\ Constructed("from_bytes", [variant |-> variant, bytes |-> bytes],
                   Keypair_from_bytes(variant, bytes))

\* sign reversing the seed of the caller's NIS1 keypair in place
Sign_reversing_key(data) ==
    /\ pc = "built"
    /\ \E r \in {Keypair_sign(kp, data)} :
          /\ ret' = r
          /\ sig' = r.value
          /\ pc' = IF r.kind = "panic" THEN "aborted" ELSE "signed"
    /\ op' = "sign"
    /\ arg' = [data |-> data]
    /\ plain' = data
    /\ kp' = IF kp.variant = "nis1" THEN [kp EXCEPT !.private_key = Reverse(@)] ELSE kp
    /\ UNCHANGED <<origin, peer, env, drawn>>

Sign(data) ==
    /\ pc = "built"
    /\ \E r \in {Keypair_sign(kp, data)} :
          /\ ret' = r
          /\ sig' = r.value
          /\ pc' = IF r.kind = "panic" THEN "aborted" ELSE "signed"
    /\ op' = "sign"
    /\ arg' = [data |-> data]
    /\ plain' = data
    /\ UNCHANGED <<kp, origin, peer, env, drawn>>

Verify(data, signature) ==
    /\ \E r \in {Keypair_verify(kp, data, signature)} :
          /\ ret' = r
          /\ pc' = IF r.kind = "panic" THEN "aborted" ELSE "done"
    /\ op' = "verify"
    /\ arg' = [data |-> data, signature |-> signature]
    /\ UNCHANGED <<kp, origin, peer, plain, sig, env, drawn>>

\* verify of the signature the keypair has just made
VerifySigned(data) == pc = "signed" /\ Verify(data, sig)
\* verify, by a keypair built around a public key alone, of someone else's signature
VerifyForeign(data, signature) ==
    pc = "built" /\ origin = "from_null_private_key" /\ Verify(data, signature)

NextSign ==
    \/ \E v \in Variants, sk \in PrivateKeys : Random(v, sk)
    \/ \E v \in Variants, sk \in PrivateKeys : FromHexPrivateKey(v, encode_hex(sk))
    \/ \E v \in Variants, sk \in PrivateKeys : FromPrivateKey(v, sk)
    \/ \E v \in Variants, pk \in NullPublicKeys : FromNullPrivateKey(v, pk)
    \/ \E m \in Messages : Sign(m)
    \/ \E m \in Messages : VerifySigned(m)
    \/ \E m \in Messages, s \in ForeignSignatures : VerifyForeign(m, s)

SpecSign == Start /\ [][NextSign]_vars

----------------------------------------------------------------------------
(* The caller: two parties, encrypt_message and decrypt_message *)

Envelope(n) == [i \in 1..n |-> ((i * 11) + n) % 256]
\* envelopes nobody encrypted: empty, shorter than the fixed prefix of a variant, longer
Envelopes == {Envelope(n) : n \in {0, 1, 27, 28, 47, 48, 64}}

Paired(name, input, self, other) ==
    /\ pc = "start"
    /\ pc' = "paired"
    /\ kp' = self /\ peer' = other
    /\ origin' = name
    /\ op' = name /\ arg' = input /\ ret' = Ok(<<>>)
    /\ UNCHANGED <<plain, sig, env, drawn>>

\* both parties hold a keypair built from a private key
Pair(variant, sk, other_sk) ==
    Paired("from_private_key", [variant |-> variant],
           Keypair_from_private_key(variant, sk), Keypair_from_private_key(variant, other_sk))

\* the caller knows the other party by 32 bytes received as its public key
PairNull(variant, sk, pk) ==
    Paired("from_null_private_key", [variant |-> variant, pk |-> pk],
           Keypair_from_private_key(variant, sk), Keypair_from_null_private_key(variant, pk))

\* kp.encrypt_message(peer.public_key, msg), the generator making its d-th draw
Encrypt(msg, d) ==
    /\ pc = "paired"
    /\ \E iv \in {random_bytes(IF kp.variant = "nis1" THEN NIS_AES_IV_LENGTH
                                 ELSE SYM_AES_IV_LENGTH, d)},
          salt \in {IF kp.variant = "nis1" THEN random_bytes(NIS_SALT_LENGTH, d) ELSE <<>>} :
       \E r \in {Keypair_encrypt_message(kp, peer.public_key, msg, iv, salt)} :
          /\ ret' = r
          /\ env' = r.value
          /\ drawn' = [iv |-> iv, salt |-> salt]
          /\ pc' = CASE r.kind = "ok" -> "sent" [] r.kind = "panic" -> "aborted"
                     [] OTHER -> "failed"
    /\ op' = "encrypt_message"
    /\ arg' = [receiver_pk |-> peer.public_key, msg |-> msg]
    /\ plain' = msg
    /\ UNCHANGED <<kp, origin, peer, sig>>

DecryptBy(self, signer_pk, enc_msg, then) ==
    /\ \E r \in {Keypair_decrypt_message(self, signer_pk, enc_msg)} :
          /\ ret' = r
          /\ pc' = IF r.kind = "panic" THEN "aborted" ELSE then
    /\ op' = "decrypt_message"
    /\ arg' = [signer_pk |-> signer_pk, enc_msg |-> enc_msg]
    /\ UNCHANGED <<kp, origin, peer, plain, sig, env, drawn>>

\* peer.decrypt_message(kp.public_key, env) of the envelope kp made for it
Decrypt ==
    /\ pc = "sent" /\ origin = "from_private_key"
    /\ DecryptBy(peer, kp.public_key, env, "received")

\* kp.decrypt_message(peer.public_key, enc_msg) of bytes that came from elsewhere
DecryptEnvelope(enc_msg) ==
    /\ pc = "paired"
    /\ DecryptBy(kp, peer.public_key, enc_msg, "done")

NextCipher ==
    \/ \E v \in Variants, sk \in PrivateKeys, other \in PrivateKeys : Pair(v, sk, other)
    \/ \E v \in Variants, sk \in PrivateKeys, pk \in NullPublicKeys : PairNull(v, sk, pk)
    \/ \E m \in Messages, d \in 1..NumDraws : Encrypt(m, d)
    \/ Decrypt
    \/ \E e \in Envelopes : DecryptEnvelope(e)

SpecCipher == Start /\ [][NextCipher]_vars

----------------------------------------------------------------------------
(* The receiver of an envelope that was altered on its way *)

\* the first and the last byte of each of the three fields of an envelope
FieldEnds(variant, enc_msg) ==
    IF variant = "nis1"
    THEN {0, NIS_SALT_LENGTH - 1, NIS_SALT_LENGTH, (NIS_SALT_LENGTH + NIS_AES_IV_LENGTH) - 1,
          NIS_SALT_LENGTH + NIS_AES_IV_LENGTH, Len(enc_msg) - 1}
    ELSE {0, AES_TAG_LENGTH - 1, AES_TAG_LENGTH, (AES_TAG_LENGTH + SYM_AES_IV_LENGTH) - 1,
          AES_TAG_LENGTH + SYM_AES_IV_LENGTH, Len(enc_msg) - 1}
\* what is flipped in byte i: all its bits at an even offset, one bit at an odd one
FlipMasks(i) == IF i % 2 = 0 THEN {255} ELSE {1}

\* peer.decrypt_message(kp.public_key, e) of the envelope kp made, byte i of it altered
DecryptAltered(i, mask) ==
    /\ pc = "sent" /\ origin = "from_private_key"
    /\ i \in 0..(Len(env) - 1)
    /\ DecryptBy(peer, kp.public_key, [env EXCEPT ![i + 1] = Xor8(@, mask)], "altered")

NextAltered ==
    \/ \E v \in Variants, sk \in PrivateKeys : \E other \in PrivateKeys \ {sk} : Pair(v, sk, other)
    \/ \E m \in Messages, d \in 1..NumDraws : Encrypt(m, d)
    \/ \E i \in FieldEnds(kp.variant, env) : \E mask \in FlipMasks(i) : DecryptAltered(i, mask)

SpecAltered == Start /\ [][NextAltered]_vars

----------------------------------------------------------------------------
(* The caller of check_scalar: scalars around the group order, and NIS1    *)
(* signatures whose s half has multiples of the order added                *)

\* the low 31 bytes: least, greatest, those of the order, one below and one above them
LowBytes ==
    {Zeros(31), [i \in 1..31 |-> 255], SubSeq(BASEPOINT_ORDER, 1, 31),
     <<236>> \o SubSeq(BASEPOINT_ORDER, 2, 31), <<238>> \o SubSeq(BASEPOINT_ORDER, 2, 31)}
TopBytes == {0, 1, 8, 15, 16, 17, 31, 32, 64, 127, 128, 143, 144, 255}
ScalarInputs == {low \o <<top>> : low \in LowBytes, top \in TopBytes}

CheckScalar(bytes) ==
    /\ pc = "start"
    /\ pc' = "checked"
    /\ op' = "check_scalar"
    /\ arg' = [bytes |-> bytes]
    /\ ret' = check_scalar(bytes)
    /\ UNCHANGED <<kp, origin, peer, plain, sig, env, drawn>>

\* a NIS1 keypair signs
SignFor(private_key, data) ==
    /\ pc = "start"
    /\ \E self \in {Keypair_from_private_key("nis1", private_key)} :
       \E r \in {Keypair_sign(self, data)} :
          kp' = self /\ ret' = r /\ sig' = r.value
    /\ pc' = "signed"
    /\ origin' = "from_private_key"
    /\ op' = "sign"
    /\ arg' = [data |-> data]
    /\ plain' = data
    /\ UNCHANGED <<peer, env, drawn>>

\* verify of the signature with j times the group order added to its s half
VerifyShifted(j) ==
    /\ pc = "signed"
    /\ Verify(plain, Slice(sig, 0, 32) \o Axpy(Slice(sig, 32, 64), BASEPOINT_ORDER, j, 32))

NextScalar ==
    \/ \E bytes \in ScalarInputs : CheckScalar(bytes)
    \/ \E sk \in PrivateKeys, m \in Messages : SignFor(sk, m)
    \/ \E j \in 0..NumShifts : VerifyShifted(j)

SpecScalar == Start /\ [][NextScalar]_vars

----------------------------------------------------------------------------
(* The caller who holds a signature: a second signature over the same      *)
(* message, and verification by another keypair, of an altered signature   *)
(* and of an altered message                                               *)

\* the constructors that build a keypair from a private key
PrivateConstructors == {"random", "from_hex_private_key", "from_private_key"}
\* the keypair the constructor returns for the private key sk
Rebuilt(ctor, variant, sk) ==
    CASE ctor = "random" -> Ok(Keypair_random(variant, sk))
      [] ctor = "from_hex_private_key" -> Keypair_from_hex_private_key(variant, encode_hex(sk))
      [] OTHER -> Ok(Keypair_from_private_key(variant, sk))

\* a second keypair value is built from the same private key and signs the same message
SignAgain(ctor) ==
    /\ pc = "signed"
    /\ \E other \in {Rebuilt(ctor, kp.variant, kp.private_key)} :
       \E r \in {IF other.kind = "ok" THEN Keypair_sign(other.value, plain) ELSE other} :
          /\ peer' = IF other.kind = "ok" THEN other.value ELSE NoKeypair
          /\ ret' = r
          /\ pc' = IF r.kind = "panic" THEN "aborted" ELSE "signed again"
    /\ op' = "sign"
    /\ arg' = [data |-> plain, by |-> ctor]
    /\ UNCHANGED <<kp, origin, plain, sig, env, drawn>>

\* the keypair of another private key verifies the signature
VerifyOther(other_sk) ==
    /\ pc = "signed" /\ other_sk # kp.private_key
    /\ \E other \in {Keypair_from_private_key(kp.variant, other_sk)} :
       \E r \in {Keypair_verify(other, plain, sig)} :
          /\ peer' = other
          /\ ret' = r
          /\ pc' = IF r.kind = "panic" THEN "aborted" ELSE "verified by other"
    /\ op' = "verify"
    /\ arg' = [data |-> plain, signature |-> sig]
    /\ UNCHANGED <<kp, origin, plain, sig, env, drawn>>

\* signature.0[i] ^= 0xff, then verify
VerifyFlipped(i) ==
    /\ pc = "signed"
    /\ Verify(plain, [sig EXCEPT ![i + 1] = Xor8(@, 255)])

\* the messages near m: a byte flipped, a byte more, a byte less
OtherMessages(m) ==
    {m \o <<0>>}
    \cup {SubSeq(m, 1, Len(m) - 1) : i \in {1} \cap DOMAIN m}
    \cup {[m EXCEPT ![i] = Xor8(@, 255)] : i \in {1, Len(m)} \cap DOMAIN m}

\* verify of the signature for another message
VerifyMessage(data) ==
    /\ pc = "signed" /\ data # plain
    /\ Verify(data, sig)

\* after verify has rejected a signature whose s half is not reduced, the caller
\* verifies the signature with a reduced s half and another R; before is the first result
VerifyAfterRejection ==
    /\ pc = "done" /\ op = "verify" /\ ret.kind = "err"
    /\ ~Lt(Slice(arg.signature, 32, 64), BASEPOINT_ORDER)
    /\ \E signature \in {[sig EXCEPT ![1] = Xor8(@, 255)]} :
       \E r \in {Keypair_verify(kp, plain, signature)} :
          /\ ret' = r
          /\ arg' = [data |-> plain, signature |-> signature, before |-> ret]
          /\ pc' = IF r.kind = "panic" THEN "aborted" ELSE "rejected twice"
    /\ op' = "verify"
    /\ UNCHANGED <<kp, origin, peer, plain, sig, env, drawn>>

NextForge ==
    \/ \E v \in Variants, sk \in PrivateKeys : FromPrivateKey(v, sk)
    \/ \E m \in Messages : Sign(m)
    \/ \E ctor \in PrivateConstructors : SignAgain(ctor)
    \/ \E sk \in PrivateKeys : VerifyOther(sk)
    \/ \E m \in OtherMessages(plain) : VerifyMessage(m)
    \/ \E j \in 1..NumShifts : VerifyShifted(j)
    \/ VerifyAfterRejection

SpecForge == Start /\ [][NextForge]_vars

\* the test of every byte of the signature
NextFlip ==
    \/ \E v \in Variants, sk \in PrivateKeys : FromPrivateKey(v, sk)
    \/ \E m \in Messages : Sign(m)
    \/ \E i \in 0..(SIGNATURE_LENGTH - 1) : VerifyFlipped(i)

SpecFlip == Start /\ [][NextFlip]_vars

----------------------------------------------------------------------------
(* The three places that clamp the digest of a secret key *)

\* 64-byte digests: those of the private keys, the three low bits of byte 0 and the
\* two high bits of byte 31 set to every value
ClampDigests ==
    {[Keccak512(sk) EXCEPT ![1] = ((@ \div 8) * 8) + low, ![32] = (@ % 64) + (64 * high)] :
        sk \in PrivateKeys, low \in 0..7, high \in 0..3}

Clamped(site, digest, bytes) ==
    /\ pc = "start"
    /\ pc' = "clamped"
    /\ op' = site
    /\ arg' = [digest |-> digest]
    /\ ret' = Ok(bytes)
    /\ UNCHANGED <<kp, origin, peer, plain, sig, env, drawn>>

\* scalar_from_sk, from the digest on
ClampForSharedSecret(digest) ==
    Clamped("scalar_from_sk", digest, ScalarFromBits(sk_hash_fix(digest)))
\* ExpandedPrivateKey::from, from the digest on
ClampForSigning(digest) ==
    Clamped("ExpandedPrivateKey::from", digest, ScalarFromBits(ExpandedPrivateKey_lower(digest)))
\* InternalPublicKey::from(PrivateKey), from the digest on
ClampForPublicKey(digest) ==
    Clamped("mangle_scalar_bits", digest, ScalarFromBits(mangle_scalar_bits(Slice(digest, 0, 32))))

NextClamp ==
    \/ \E digest \in ClampDigests : ClampForSharedSecret(digest)
    \/ \E digest \in ClampDigests : ClampForSigning(digest)
    \/ \E digest \in ClampDigests : ClampForPublicKey(digest)

SpecClamp == Start /\ [][NextClamp]_vars

----------------------------------------------------------------------------
(* The caller of from_hex_private_key: texts of many lengths and alphabets *)

HexLengths == {0, 1, 2, 32, 62, 63, 64, 65, 66, 128}
HexStyles == {"lower", "upper", "mixed", "bad first", "bad middle", "bad last", "0x"}
OtherChars == <<"g", "x", " ", "-", "G", "\n">>
\* a text of n characters: hex digits drawn from seed k, in the style's alphabet, with
\* a character that is no hex digit at the place the style names
HexText(n, style, k) ==
    [i \in 1..n |->
        LET digit == (((k * 7) + (i * 5) + ((i * i * k) % 11)) % 16) + 1
            other == OtherChars[((k + n) % Len(OtherChars)) + 1]
        IN CASE style = "lower" -> HexLower[digit]
             [] style = "upper" -> HexUpper[digit]
             [] style = "mixed" -> IF i % 2 = 0 THEN HexUpper[digit] ELSE HexLower[digit]
             [] style = "bad first" -> IF i = 1 THEN other ELSE HexLower[digit]
             [] style = "bad middle" -> IF i = (n + 1) \div 2 THEN other ELSE HexUpper[digit]
             [] style = "bad last" -> IF i = n THEN other ELSE HexLower[digit]
             [] OTHER -> IF i = 1 THEN "0" ELSE IF i = 2 THEN "x" ELSE HexLower[digit]]
HexInputs == {HexText(n, style, k) : n \in HexLengths, style \in HexStyles, k \in 1..NumKeys}

NextHex == \E v \in Variants, hex \in HexInputs : FromHexPrivateKey(v, hex)

SpecHex == Start /\ [][NextHex]_vars

----------------------------------------------------------------------------
(* The caller of from_bytes and to_bytes *)

\* 32-byte public halves: the key either variant derives from sk, other points of the
\* curve, and bytes that are no point
PublicHalves(sk) ==
    {Keypair_from_private_key(v, sk).public_key : v \in Variants}
    \cup {Compress(BasepointMul(PrivKey(NumKeys + j))) : j \in 1..NumPoints}
    \cup NullPublicKeys
KeypairBytes ==
    {sk \o pk : sk \in PrivateKeys, pk \in UNION {PublicHalves(k) : k \in PrivateKeys}}
    \cup {SubSeq(sk \o Zeros(KEY_BYTES_SIZE), 1, KEYPAIR_LENGTH - 1) : sk \in PrivateKeys}
    \cup {sk \o Zeros(KEY_BYTES_SIZE + 1) : sk \in PrivateKeys}

\* kp.to_bytes(); it has no inputs, and arg keeps those of the constructor
ToBytes ==
    /\ pc = "built"
    /\ pc' = "exported"
    /\ op' = "to_bytes"
    /\ ret' = Ok(to_bytes(kp))
    /\ UNCHANGED <<kp, origin, peer, arg, plain, sig, env, drawn>>

NextBytes ==
    \/ \E v \in Variants, bytes \in KeypairBytes : FromBytes(v, bytes)
    \/ ToBytes

SpecBytes == Start /\ [][NextBytes]_vars

----------------------------------------------------------------------------
(* The caller who keeps its keypair: every method takes the keypair by shared reference *)

Keypair_private_key(self) == self.private_key
Keypair_public_key(self) == self.public_key

\* the states in which the caller holds a keypair and no call has aborted
Holding == {"built", "paired", "signed", "sent", "received", "done", "exported"}

\* kp.private_key()
GetPrivateKey ==
    /\ pc \in Holding
    /\ pc' = "read"
    /\ op' = "private_key"
    /\ ret' = Ok(Keypair_private_key(kp))
    /\ UNCHANGED <<kp, origin, peer, arg, plain, sig, env, drawn>>

\* kp.public_key()
GetPublicKey ==
    /\ pc \in Holding
    /\ pc' = "read"
    /\ op' = "public_key"
    /\ ret' = Ok(Keypair_public_key(kp))
    /\ UNCHANGED <<kp, origin, peer, arg, plain, sig, env, drawn>>

\* kp.to_bytes() once the caller has signed
ToBytesSigned ==
    /\ pc = "signed"
    /\ pc' = "exported"
    /\ op' = "to_bytes"
    /\ ret' = Ok(to_bytes(kp))
    /\ UNCHANGED <<kp, origin, peer, arg, plain, sig, env, drawn>>

NextFrame ==
    \/ \E v \in Variants, sk \in PrivateKeys : FromPrivateKey(v, sk)
    \/ \E v \in Variants, sk \in PrivateKeys : \E other \in PrivateKeys \ {sk} : Pair(v, sk, other)
    \/ \E v \in Variants, sk \in PrivateKeys, pk \in NullPublicKeys : PairNull(v, sk, pk)
    \/ \E m \in Messages : Sign(m)
    \/ \E m \in Messages : VerifySigned(m)
    \/ \E m \in OtherMessages(plain) : VerifyMessage(m)
    \/ ToBytes
    \/ ToBytesSigned
    \/ \E m \in Messages, d \in 1..NumDraws : Encrypt(m, d)
    \/ Decrypt
    \/ \E e \in Envelopes : DecryptEnvelope(e)
    \/ GetPrivateKey
    \/ GetPublicKey

SpecFrame == Start /\ [][NextFrame]_vars

----------------------------------------------------------------------------
(* Several threads over shared keypairs: pc, op, arg, ret and drawn hold one value a thread,
   kp and peer are the shared keypairs, sig and env a signature and an envelope received
   earlier and shared by reference, plain the message each thread signs or encrypts *)

Threads == 1..NumThreads

SharedKeypair(variant) == Keypair_from_private_key(variant, PrivKey(1))
PeerKeypair(variant) == Keypair_from_private_key(variant, PrivKey(2))
MessageOf(t) == Message(t % (NumMsgs + 1))

\* what one call of encrypt_message draws: an iv, and for NIS1 a salt as well
DrawFor(variant, d) ==
    [iv |-> random_bytes(IF variant = "nis1" THEN NIS_AES_IV_LENGTH ELSE SYM_AES_IV_LENGTH, d),
     salt |-> IF variant = "nis1" THEN random_bytes(NIS_SALT_LENGTH, d) ELSE <<>>]

\* the envelope the peer sent earlier
ReceivedEnvelope(variant) ==
    Keypair_encrypt_message(PeerKeypair(variant), SharedKeypair(variant).public_key, Message(2),
                            DrawFor(variant, 1).iv, DrawFor(variant, 1).salt).value

StartThreads ==
    \E v \in Variants :
       /\ kp = SharedKeypair(v) /\ peer = PeerKeypair(v) /\ origin = "from_private_key"
       /\ plain = [t \in Threads |-> MessageOf(t)]
       /\ sig = Keypair_sign(kp, Message(1)).value
       /\ env = ReceivedEnvelope(v)
       /\ pc = [t \in Threads |-> "idle"]
       /\ op = [t \in Threads |-> "none"]
       /\ arg = [t \in Threads |-> <<>>]
       /\ ret = [t \in Threads |-> NoResult]
       /\ drawn = [t \in Threads |-> <<>>]

\* thread t's call returned r
Returned(t, name, input, r) ==
    /\ ret' = [ret EXCEPT ![t] = r]
    /\ pc' = [pc EXCEPT ![t] = IF r.kind = "panic" THEN "aborted" ELSE "returned"]
    /\ op' = [op EXCEPT ![t] = name]
    /\ arg' = [arg EXCEPT ![t] = input]
    /\ UNCHANGED <<kp, origin, peer, plain, sig, env>>

\* the buffer random_bytes fills is one for every thread
ThreadLocalDraw_process_wide(bufs, t, bytes) == [u \in DOMAIN bufs |-> bytes]

\* random_bytes fills a buffer on the calling thread's stack from the generator of that thread
ThreadLocalDraw(bufs, t, bytes) == [bufs EXCEPT ![t] = bytes]

ThreadSign(t) ==
    /\ pc[t] = "idle"
    /\ \E r \in {Keypair_sign(kp, plain[t])} : Returned(t, "sign", [data |-> plain[t]], r)
    /\ UNCHANGED drawn

\* the shared signature is for Message(1): the threads whose message is another are refused
ThreadVerify(t) ==
    /\ pc[t] = "idle"
    /\ \E r \in {Keypair_verify(kp, plain[t], sig)} :
          Returned(t, "verify", [data |-> plain[t], signature |-> sig], r)
    /\ UNCHANGED drawn

ThreadDecrypt(t) ==
    /\ pc[t] = "idle"
    /\ \E r \in {Keypair_decrypt_message(kp, peer.public_key, env)} :
          Returned(t, "decrypt_message", [signer_pk |-> peer.public_key, enc_msg |-> env], r)
    /\ UNCHANGED drawn

\* encrypt_message, up to the return of random_bytes; draw records which draw the call got
ThreadDraw(t, d) ==
    /\ pc[t] = "idle"
    /\ pc' = [pc EXCEPT ![t] = "drawn"]
    /\ op' = [op EXCEPT ![t] = "encrypt_message"]
    /\ arg' = [arg EXCEPT ![t] = [receiver_pk |-> peer.public_key, msg |-> plain[t], draw |-> d]]
    /\ drawn' = ThreadLocalDraw(drawn, t, DrawFor(kp.variant, d))
    /\ UNCHANGED <<kp, origin, peer, ret, plain, sig, env>>

\* encrypt_message, from the key derivation to the return
ThreadEncrypt(t) ==
    /\ pc[t] = "drawn"
    /\ \E r \in {Keypair_encrypt_message(kp, arg[t].receiver_pk, arg[t].msg,
                                         drawn[t].iv, drawn[t].salt)} :
          Returned(t, "encrypt_message", arg[t], r)
    /\ UNCHANGED drawn

NextThreads ==
    \/ \E t \in Threads : ThreadSign(t)
    \/ \E t \in Threads : ThreadVerify(t)
    \/ \E t \in Threads : ThreadDecrypt(t)
    \/ \E t \in Threads, d \in 1..NumDraws : ThreadDraw(t, d)
    \/ \E t \in Threads : ThreadEncrypt(t)

SpecThreads == StartThreads /\ [][NextThreads]_vars

----------------------------------------------------------------------------
(* The sender who encrypts twice for the same receiver *)

\* the receiver is the holder of the next private key
NextKey(sk) == PrivKey(((CHOOSE k \in 1..NumKeys : PrivKey(k) = sk) % NumKeys) + 1)

\* a second kp.encrypt_message(peer.public_key, msg); before keeps the first call's
\* envelope and draw
EncryptAgain(msg, d) ==
    /\ pc = "sent"
    /\ \E iv \in {random_bytes(IF kp.variant = "nis1" THEN NIS_AES_IV_LENGTH
                                 ELSE SYM_AES_IV_LENGTH, d)},
          salt \in {IF kp.variant = "nis1" THEN random_bytes(NIS_SALT_LENGTH, d) ELSE <<>>} :
       \E r \in {Keypair_encrypt_message(kp, peer.public_key, msg, iv, salt)} :
          /\ ret' = r
          /\ env' = r.value
          /\ drawn' = [iv |-> iv, salt |-> salt]
          /\ pc' = CASE r.kind = "ok" -> "sent twice" [] r.kind = "panic" -> "aborted"
                     [] OTHER -> "failed"
    /\ op' = "encrypt_message"
    /\ arg' = [receiver_pk |-> peer.public_key, msg |-> msg,
               before |-> [env |-> env, drawn |-> drawn, msg |-> plain]]
    /\ plain' = msg
    /\ UNCHANGED <<kp, origin, peer, sig>>

NextReuse ==
    \/ \E v \in Variants, sk \in PrivateKeys : Pair(v, sk, NextKey(sk))
    \/ \E m \in Messages, d \in 1..NumDraws : Encrypt(m, d)
    \/ \E m \in Messages, d \in 1..NumDraws : EncryptAgain(m, d)

SpecReuse == Start /\ [][NextReuse]_vars

----------------------------------------------------------------------------
(* The caller who builds the keypair of one private key more than once *)

\* the hex text of a private key as callers write it: format!("{:x}") or upper case
InCase(style, text) ==
    [i \in 1..Len(text) |-> IF style = "upper" THEN HexUpper[HexValue(text[i]) + 1] ELSE text[i]]
HexCases == {"lower", "upper"}

\* the ways to build the keypair of sk: a constructor, and the case of the text if it takes one
Constructions ==
    {[ctor |-> c, style |-> "none"] : c \in {"random", "from_private_key"}}
    \cup {[ctor |-> "from_hex_private_key", style |-> s] : s \in HexCases}

Construct(how, variant, sk) ==
    CASE how.ctor = "random" -> Ok(Keypair_random(variant, sk))
      [] how.ctor = "from_hex_private_key" ->
            Keypair_from_hex_private_key(variant, InCase(how.style, encode_hex(sk)))
      [] OTHER -> Ok(Keypair_from_private_key(variant, sk))

\* the first construction; arg keeps the private key the caller gave
Build(how, variant, sk) ==
    /\ pc = "start"
    /\ Constructed(how.ctor, [variant |-> variant, private_key |-> sk, how |-> how],
                   Construct(how, variant, sk))

\* a later construction from the same private key; the caller holds the result in peer
BuildAgain(how) ==
    /\ pc = "built"
    /\ \E r \in {Construct(how, kp.variant, arg.private_key)} :
          /\ peer' = IF r.kind = "ok" THEN r.value ELSE NoKeypair
          /\ ret' = r
          /\ pc' = CASE r.kind = "ok" -> "built again" [] r.kind = "panic" -> "aborted"
                     [] OTHER -> "failed"
    /\ op' = how.ctor
    /\ arg' = [variant |-> kp.variant, private_key |-> arg.private_key, how |-> how,
               before |-> arg.how]
    /\ UNCHANGED <<kp, origin, plain, sig, env, drawn>>

NextRebuild ==
    \/ \E how \in Constructions, v \in Variants, sk \in PrivateKeys : Build(how, v, sk)
    \/ \E how \in Constructions : BuildAgain(how)

SpecRebuild == Start /\ [][NextRebuild]_vars

----------------------------------------------------------------------------
(* The two parties of an envelope, each deriving the symmetric key on its side *)

\* derive_shared_key of the variant's cipher (Symbol takes no salt)
Keypair_derive_shared_key(variant, salt, secret_key, public_key) ==
    IF variant = "nis1" THEN Nis1_derive_shared_key(salt, secret_key, public_key)
    ELSE Sym_derive_shared_key(secret_key, public_key)

\* the scalar derive_shared_secret multiplies the other party's point by
DhScalar(variant, secret_key) ==
    IF variant = "nis1" THEN scalar_from_sk("Keccak512", Reverse(secret_key))
    ELSE scalar_from_sk("Sha512", secret_key)

\* the receiver derives the key for the envelope it got, with the salt the envelope
\* carries; arg keeps the key the sender derived and, for each party, the point its
\* scalar gives on the base point
DeriveOnReceipt ==
    /\ pc = "sent" /\ origin = "from_private_key"
    /\ \E salt \in {IF kp.variant = "nis1" THEN Slice(env, 0, NIS_SALT_LENGTH) ELSE <<>>} :
          /\ ret' = Keypair_derive_shared_key(kp.variant, salt, peer.private_key, kp.public_key)
          /\ arg' = [salt |-> salt,
                     by_sender |-> Keypair_derive_shared_key(kp.variant, drawn.salt,
                                                             kp.private_key, peer.public_key),
                     sender_point |-> Compress(BasepointMul(DhScalar(kp.variant, kp.private_key))),
                     receiver_point |->
                         Compress(BasepointMul(DhScalar(kp.variant, peer.private_key)))]
    /\ pc' = "derived"
    /\ op' = "derive_shared_key"
    /\ UNCHANGED <<kp, origin, peer, plain, sig, env, drawn>>

NextDerive ==
    \/ \E v \in Variants, sk \in PrivateKeys : \E other \in PrivateKeys \ {sk} : Pair(v, sk, other)
    \/ \E m \in Messages, d \in 1..NumDraws : Encrypt(m, d)
    \/ DeriveOnReceipt

SpecDerive == Start /\ [][NextDerive]_vars

----------------------------------------------------------------------------
(* The NIS1 signer whose keypair came from a private key or from 64 bytes, and the
   verification of what it signed *)

NextSigned ==
    \/ \E v \in Variants, sk \in PrivateKeys : FromPrivateKey(v, sk)
    \/ \E bytes \in KeypairBytes : FromBytes("nis1", bytes)
    \/ \E m \in Messages : Sign(m)
    \/ VerifySigned(plain)

SpecSigned == Start /\ [][NextSigned]_vars

----------------------------------------------------------------------------
(* The NIS1 receiver of an envelope whose ciphertext was cut or garbled on its way *)

\* lengths an envelope is cut to: no ciphertext, part of a block, a block and a part
CutLengths(enc_msg) ==
    {NIS_SALT_LENGTH + NIS_AES_IV_LENGTH, NIS_SALT_LENGTH + NIS_AES_IV_LENGTH + 1,
     Len(enc_msg) - 1, Len(enc_msg)}
\* the last byte of the block before the last one (of the iv, when there is one block),
\* which CBC xors into the last byte of the plaintext, and the last byte of the ciphertext
GarbledBytes(enc_msg) == {Len(enc_msg) - (BLOCK_SIZE + 1), Len(enc_msg) - 1}
GarbleMasks == {1, 10, 255}

\* peer.decrypt_message(kp.public_key, the first n bytes of env)
DecryptCut(n) ==
    /\ pc = "sent" /\ origin = "from_private_key"
    /\ DecryptBy(peer, kp.public_key, SubSeq(env, 1, n), "cut")

NextPadding ==
    \/ \E sk \in PrivateKeys : Pair("nis1", sk, NextKey(sk))
    \/ \E m \in Messages, d \in 1..NumDraws : Encrypt(m, d)
    \/ \E n \in CutLengths(env) : DecryptCut(n)
    \/ \E i \in GarbledBytes(env) : \E mask \in GarbleMasks : DecryptAltered(i, mask)

SpecPadding == Start /\ [][NextPadding]_vars

----------------------------------------------------------------------------
(* C1: a keypair built from a private key accepts its own signature: for    *)
(* every keypair returned by random, from_hex_private_key or              *)
(* from_private_key and every message m, in both variants, verify(m,       *)
(* sign(m)) returns Ok.                                                    *)

FromPrivate == origin \in {"random", "from_hex_private_key", "from_private_key"}
VerifiedOwn ==
    /\ pc = "done" /\ op = "verify" /\ FromPrivate
    /\ sig # <<>> /\ arg.signature = sig /\ arg.data = plain
C1_SignThenVerifyOk == VerifiedOwn => ret.kind = "ok"
C1_Witness == VerifiedOwn /\ kp.variant = "nis1" /\ ret.kind = "ok" /\ plain # <<>>


----------------------------------------------------------------------------
(* C6: verify on a keypair whose public_key bytes do not decompress to a   *)
(* curve point returns an error result and never panics, in both variants  *)
(* and for every message and signature.                                    *)

VerifiedBadKey ==
    /\ op = "verify" /\ pc \in {"done", "aborted"}
    /\ Decompress(kp.public_key).kind # "ok"
C6_VerifyBadKeyIsError == VerifiedBadKey => ret.kind = "err"


----------------------------------------------------------------------------
(* C2: for two keypairs of one variant, both built from a private key, and *)
(* every non-empty message, the receiver's decrypt_message of what the     *)
(* sender's encrypt_message returned is Ok(message), in the NIS1 and in    *)
(* the Symbol cipher, whatever IV and salt the encryption drew.            *)

Received ==
    /\ pc \in {"received", "aborted"} /\ op = "decrypt_message"
    /\ arg.enc_msg = env /\ env # <<>> /\ plain # <<>>
C2_DecryptOfEncrypt == Received => (ret.kind = "ok" /\ ret.value = plain)
C2_Witness ==
    /\ Received /\ ret.kind = "ok" /\ ret.value = plain
    /\ kp.variant = "sym" /\ kp # peer /\ Len(plain) % BLOCK_SIZE # 0


----------------------------------------------------------------------------
(* C3: for an envelope of any length, also a non-empty one shorter than    *)
(* the fixed prefix (48 bytes in NIS1, 28 in Symbol), decrypt_message      *)
(* completes with a plaintext or an explicit error result; no envelope     *)
(* causes a fatal abort.  (The signer's public key is one that             *)
(* decompresses: the envelope alone is at stake.)                          *)

DecryptedFromPoint == op = "decrypt_message" /\ Decompress(arg.signer_pk).kind = "ok"
C3_DecryptNeverAborts == DecryptedFromPoint => ret.kind \in {"ok", "err"}

----------------------------------------------------------------------------
(* C4: decrypt_message of the empty envelope returns the error 'msg cannot *)
(* be empty' in both variants, before any key derivation or cipher         *)
(* operation has run.                                                      *)

DecryptedEmpty == op = "decrypt_message" /\ arg.enc_msg = <<>>
C4_EmptyEnvelopeRejectedFirst ==
    DecryptedEmpty => (ret.kind = "err" /\ ret.error = "msg cannot be empty" /\ ret.ops = 0)
C4_Witness ==
    /\ DecryptedEmpty /\ kp.variant = "sym" /\ ret.error = "msg cannot be empty"
    /\ Decompress(arg.signer_pk).kind # "ok"

----------------------------------------------------------------------------
(* C5: when the peer public key given to encrypt_message or                *)
(* decrypt_message is 32 bytes that do not decompress to a curve point,    *)
(* the call returns an error result to the caller, in both variants.       *)

PeerKeyOf == IF op = "encrypt_message" THEN arg.receiver_pk ELSE arg.signer_pk
CalledWithBadPeerKey ==
    /\ op \in {"encrypt_message", "decrypt_message"}
    /\ Decompress(PeerKeyOf).kind # "ok"
C5_BadPeerKeyIsError == CalledWithBadPeerKey => ret.kind = "err"

----------------------------------------------------------------------------
(* C10: what the NIS1 encrypt_message returns is the 32-byte salt the key  *)
(* was derived with, then the 16-byte IV the cipher ran with, then the     *)
(* CBC/PKCS#7 ciphertext: 48 + 16 * (floor(len(msg) / 16) + 1) bytes in    *)
(* all, for every message.                                                 *)

Nis1Encrypted == op = "encrypt_message" /\ kp.variant = "nis1" /\ ret.kind = "ok"
C10_Nis1EnvelopeLayout ==
    Nis1Encrypted =>
        /\ Slice(env, 0, 32) = drawn.salt
        /\ Slice(env, 32, 48) = drawn.iv
        /\ Len(env) = 48 + (16 * ((Len(plain) \div 16) + 1))
        /\ Nis1_decrypt(drawn.iv, Nis1_derive_shared_key(drawn.salt, kp.private_key,
                            arg.receiver_pk).value, Slice(env, 48, Len(env))) = Ok(plain)
C10_Witness == Nis1Encrypted /\ Len(plain) = 16 /\ Len(env) = 80 /\ drawn.salt # Zeros(32)


----------------------------------------------------------------------------
(* C7: check_scalar returns Ok exactly when the 32 bytes, read as a        *)
(* little-endian integer, are strictly less than the group order: an       *)
(* input whose last byte has its top 4 bits clear is below the order and   *)
(* is accepted, any other input is accepted only if it is canonical; so    *)
(* NIS1 verify rejects every signature whose s half is not fully reduced.  *)

BelowOrder(bytes) == Lt(bytes, BASEPOINT_ORDER)
C7_CheckScalarIffBelowOrder ==
    /\ op = "check_scalar" =>
          /\ ret.kind = "ok" <=> BelowOrder(arg.bytes)
          /\ And8(arg.bytes[32], 240) = 0 => (BelowOrder(arg.bytes) /\ ret.kind = "ok")
          /\ ret.kind = "ok" => ret.value = arg.bytes
    /\ (op = "verify" /\ ~BelowOrder(Slice(arg.signature, 32, 64))) => ret.kind = "err"
    /\ (op = "verify" /\ arg.signature = sig) => ret.kind = "ok"
\* the greatest scalar below the order is accepted off the fast path
C7_Witness ==
    /\ op = "check_scalar" /\ ret.kind = "ok" /\ And8(arg.bytes[32], 240) # 0
    /\ arg.bytes = <<236>> \o SubSeq(BASEPOINT_ORDER, 2, 32)


----------------------------------------------------------------------------
(* C8: from_hex_private_key, in both variants, returns an error without    *)
(* deriving a key or running a cryptographic operation for every text      *)
(* that is empty, has a character outside 0-9a-fA-F, or is not exactly 64  *)
(* characters long; the hex test comes before the length test, so the      *)
(* empty text is reported as 'private_key it's not hex.'; every text of    *)
(* 64 hex digits is accepted.                                              *)

AllHexDigits(text) == \A i \in 1..Len(text) : text[i] \in HexChars
C8_HexTextChecked ==
    op = "from_hex_private_key" =>
        /\ (Len(arg.hex) = 64 /\ AllHexDigits(arg.hex)) =>
               (ret.kind = "ok" /\ pc = "built" /\ Len(kp.private_key) = KEY_BYTES_SIZE)
        /\ (Len(arg.hex) # 64 \/ ~AllHexDigits(arg.hex)) =>
               (ret.kind = "err" /\ ret.ops = 0 /\ kp = NoKeypair)
        /\ (arg.hex = <<>> \/ ~AllHexDigits(arg.hex)) =>
               ret.error = "private_key it's not hex."
        /\ (arg.hex # <<>> /\ AllHexDigits(arg.hex) /\ Len(arg.hex) # 64) =>
               ret.error = "private key has unexpected size"
C8_Witness ==
    /\ op = "from_hex_private_key" /\ arg.hex = <<>>
    /\ ret.error = "private_key it's not hex." /\ arg.variant = "nis1"


----------------------------------------------------------------------------
(* C9: for every 64-byte input b that from_bytes accepts, in either        *)
(* variant, to_bytes of the keypair it returns is b, bytes 0..32 the       *)
(* private key and bytes 32..64 the public key; to_bytes is always 64      *)
(* bytes, the private key and then the public key.                         *)

Exported == op = "to_bytes" /\ origin = "from_bytes"
C9_FromBytesToBytes ==
    Exported =>
        /\ ret.value = arg.bytes
        /\ Slice(arg.bytes, 0, 32) = kp.private_key
        /\ Slice(arg.bytes, 32, 64) = kp.public_key
        /\ Len(ret.value) = KEYPAIR_LENGTH
        /\ ret.value = kp.private_key \o kp.public_key


----------------------------------------------------------------------------
(* C11: what the Symbol encrypt_message returns is the 16-byte              *)
(* authentication tag of this encryption, then the 12-byte IV the cipher   *)
(* ran with, then the AES-256-GCM ciphertext, which is as long as the      *)
(* message: 28 + len(msg) bytes in all.                                    *)

SymEncrypted == op = "encrypt_message" /\ kp.variant = "sym" /\ ret.kind = "ok"
C11_SymEnvelopeLayout ==
    SymEncrypted =>
        \E key \in {Sym_derive_shared_key(kp.private_key, arg.receiver_pk).value} :
            /\ Len(env) = (AES_TAG_LENGTH + SYM_AES_IV_LENGTH) + Len(plain)
            /\ Slice(env, AES_TAG_LENGTH, AES_TAG_LENGTH + SYM_AES_IV_LENGTH) = drawn.iv
            /\ Len(Slice(env, AES_TAG_LENGTH + SYM_AES_IV_LENGTH, Len(env))) = Len(plain)
            /\ Slice(env, 0, AES_TAG_LENGTH)
                  = GcmTag(key, drawn.iv, Slice(env, AES_TAG_LENGTH + SYM_AES_IV_LENGTH, Len(env)))
            /\ Sym_decrypt(drawn.iv, key,
                           Slice(env, AES_TAG_LENGTH + SYM_AES_IV_LENGTH, Len(env))
                           \o Slice(env, 0, AES_TAG_LENGTH)) = Ok(plain)
C11_Witness ==
    /\ SymEncrypted /\ Len(plain) = 5 /\ Len(env) = 33
    /\ Slice(env, 0, AES_TAG_LENGTH) # Slice(env, AES_TAG_LENGTH, 2 * AES_TAG_LENGTH)


----------------------------------------------------------------------------
(* C12: the Symbol decrypt_message of an envelope that differs from the    *)
(* one encrypt_message made for the same two keypairs in one byte, of the  *)
(* tag, of the IV or of the ciphertext, returns the authentication error   *)
(* of the AEAD cipher and no plaintext byte.                               *)

DecryptedAltered ==
    /\ op = "decrypt_message" /\ pc \in {"altered", "aborted"} /\ peer.variant = "sym"
    /\ arg.enc_msg # env /\ Len(arg.enc_msg) = Len(env)
C12_AlteredEnvelopeRejected ==
    DecryptedAltered => (ret.kind = "err" /\ ret.error = "aead::Error" /\ ret.value = <<>>)
\* the last byte of the ciphertext differs in one bit
C12_Witness ==
    /\ DecryptedAltered /\ ret.kind = "err" /\ Len(env) > AES_TAG_LENGTH + SYM_AES_IV_LENGTH
    /\ Slice(arg.enc_msg, 0, Len(env) - 1) = Slice(env, 0, Len(env) - 1)
    /\ Xor8(arg.enc_msg[Len(env)], env[Len(env)]) = 1


----------------------------------------------------------------------------
(* C13: sign is deterministic: a second keypair value built from the same  *)
(* private key, by any constructor that takes a private key, returns for   *)
(* the same message the same 64-byte signature as the first, in both       *)
(* variants, and sign draws no random bytes.                               *)

SignedAgain == op = "sign" /\ pc \in {"signed again", "aborted"}
----------------------------------------------------------------------------
(* C14: for keypairs K1 and K2 built from different private keys and every *)
(* message m, K2.verify(m, K1.sign(m)) returns an error, in both variants. *)

VerifiedByOther ==
    /\ op = "verify" /\ pc \in {"verified by other", "aborted"}
    /\ peer.private_key # kp.private_key
C14_OtherKeypairRejects ==
    VerifiedByOther => (ret.kind = "err" /\ peer.public_key # kp.public_key)
C14_Witness ==
    /\ VerifiedByOther /\ ret.kind = "err" /\ kp.variant = "sym"
    /\ arg.signature = sig /\ arg.data = plain /\ Len(sig) = SIGNATURE_LENGTH

----------------------------------------------------------------------------
(* C15: for every keypair, message and byte index i in 0..63, verify of    *)
(* the message with the signature whose byte i is flipped (xor 0xff), in   *)
(* the R half or in the s half, returns an error, in both variants.        *)

VerifiedFlipped ==
    /\ op = "verify" /\ pc \in {"done", "aborted"} /\ arg.data = plain
    /\ \E i \in 1..SIGNATURE_LENGTH : arg.signature = [sig EXCEPT ![i] = Xor8(@, 255)]
C15_FlippedSignatureRejected == VerifiedFlipped => ret.kind = "err"
\* the lowest byte of the s half is flipped
C15_Witness ==
    /\ VerifiedFlipped /\ ret.kind = "err" /\ kp.variant = "nis1"
    /\ arg.signature = [sig EXCEPT ![33] = Xor8(@, 255)]

----------------------------------------------------------------------------
(* C16: a signature made over m is rejected by verify for every message    *)
(* that differs from m, by a flipped byte or by a byte more or less, in    *)
(* both variants.                                                          *)

VerifiedOtherMessage ==
    /\ op = "verify" /\ pc \in {"done", "aborted"}
    /\ arg.signature = sig /\ arg.data # plain
C16_OtherMessageRejected == VerifiedOtherMessage => ret.kind = "err"
C16_Witness ==
    /\ VerifiedOtherMessage /\ ret.kind = "err" /\ kp.variant = "nis1"
    /\ arg.data = plain \o <<0>>


----------------------------------------------------------------------------
(* C17: for every 64-byte digest, the clamped scalar bytes are the low 32  *)
(* bytes of the digest with bits 0-2 of byte 0 cleared, bit 7 of byte 31   *)
(* cleared and bit 6 of byte 31 set, every other bit as it was; the three  *)
(* clamping sites (scalar_from_sk, ExpandedPrivateKey::from and the NIS1   *)
(* public-key derivation) give these same bytes for the same digest.       *)

ClampSites == {"scalar_from_sk", "ExpandedPrivateKey::from", "mangle_scalar_bits"}
C17_ClampedBytes ==
    op \in ClampSites =>
        /\ Len(ret.value) = 32
        /\ \A i \in 2..31 : ret.value[i] = arg.digest[i]
        /\ ret.value[1] = arg.digest[1] - (arg.digest[1] % 8)
        /\ ret.value[32] = (arg.digest[32] % 64) + 64
\* a digest in which the clamp changes every bit it touches, at the signing site
C17_Witness ==
    /\ op = "ExpandedPrivateKey::from"
    /\ arg.digest[1] % 8 = 7 /\ arg.digest[32] \div 64 = 2
    /\ ret.value[1] = arg.digest[1] - 7 /\ ret.value[32] = arg.digest[32] - 64


----------------------------------------------------------------------------
(* C18: the error value verify returns does not tell why verification      *)
(* failed: for one keypair and message, a signature rejected because its s *)
(* half is not canonical and a signature rejected because the recomputed R *)
(* does not match yield the same error value.                              *)

RejectedTwice == op = "verify" /\ pc = "rejected twice"
C18_RejectionsAlike == RejectedTwice => (ret.kind = "err" /\ ret = arg.before)


----------------------------------------------------------------------------
(* C19 *)

KeypairMethods ==
    {"sign", "verify", "encrypt_message", "decrypt_message", "to_bytes", "private_key", "public_key"}

\* C19: a step in which sign, verify, encrypt_message, decrypt_message, to_bytes,
\* private_key or public_key returns, with a result or with an error, leaves the private
\* key and the public key of the caller's keypair and of the other party's keypair as
\* they were; the NIS1 methods reverse a copy of the secret seed.
C19_KeypairUnchanged ==
    [][(op' \in KeypairMethods) => (kp' = kp /\ peer' = peer)]_vars

\* the NIS1 keypair has signed, and private_key() still returns the seed it was built from,
\* which its reversal is not
C19_Witness ==
    /\ op = "private_key" /\ kp.variant = "nis1" /\ Len(sig) = SIGNATURE_LENGTH
    /\ ret.value \in PrivateKeys /\ Reverse(ret.value) \notin PrivateKeys
    /\ ret.value = kp.private_key


----------------------------------------------------------------------------
(* C20 *)

\* the result of each call of thread t when no other thread runs, and what the peer reads
\* in the envelope of such a call
RunAlone ==
    [v \in Variants |-> [t \in Threads |->
        [sign |-> Keypair_sign(SharedKeypair(v), MessageOf(t)),
         verify |-> Keypair_verify(SharedKeypair(v), MessageOf(t),
                                   Keypair_sign(SharedKeypair(v), Message(1)).value),
         decrypt_message |-> Keypair_decrypt_message(SharedKeypair(v), PeerKeypair(v).public_key,
                                                     ReceivedEnvelope(v)),
         encrypt_message |->
            [d \in 1..NumDraws |->
                Let(Keypair_encrypt_message(SharedKeypair(v), PeerKeypair(v).public_key, MessageOf(t),
                                            DrawFor(v, d).iv, DrawFor(v, d).salt), LAMBDA r :
                    [result |-> r,
                     opened |-> Keypair_decrypt_message(PeerKeypair(v), SharedKeypair(v).public_key,
                                                        r.value)])]]]]

\* the iv and the salt an envelope carries
DrawIn(variant, enc_msg) ==
    IF variant = "nis1"
    THEN [iv |-> Slice(enc_msg, NIS_SALT_LENGTH, NIS_SALT_LENGTH + NIS_AES_IV_LENGTH),
          salt |-> Slice(enc_msg, 0, NIS_SALT_LENGTH)]
    ELSE [iv |-> Slice(enc_msg, AES_TAG_LENGTH, AES_TAG_LENGTH + SYM_AES_IV_LENGTH),
          salt |-> <<>>]

ResultAlone(t) ==
    IF op[t] = "encrypt_message" THEN RunAlone[kp.variant][t].encrypt_message[arg[t].draw].result
    ELSE RunAlone[kp.variant][t][op[t]]

\* C20: in every interleaving of sign, verify, encrypt_message and decrypt_message calls of
\* several threads over the shared keypairs, a call that has drawn holds the bytes of its
\* own draw, a call that has returned has the result it has when it runs alone, and the
\* envelope of an encrypt_message call carries the iv (and salt) of its own draw and is
\* decrypted by the peer to the call's own message.
C20_EachCallAsAlone ==
    \A t \in Threads :
       /\ pc[t] = "drawn" => drawn[t] = DrawFor(kp.variant, arg[t].draw)
       /\ pc[t] = "returned" => ret[t] = ResultAlone(t)
       /\ (pc[t] = "returned" /\ op[t] = "encrypt_message") =>
             /\ ret[t].kind = "ok"
             /\ DrawIn(kp.variant, ret[t].value) = DrawFor(kp.variant, arg[t].draw)
             /\ \E opened \in {RunAlone[kp.variant][t].encrypt_message[arg[t].draw].opened} :
                   opened.kind = "ok" /\ opened.value = plain[t]

\* two threads have encrypted at the same time, each with another draw and another message
C20_Witness ==
    /\ kp.variant = "nis1"
    /\ \E t, u \in Threads :
          /\ pc[t] = "returned" /\ pc[u] = "returned"
          /\ op[t] = "encrypt_message" /\ op[u] = "encrypt_message"
          /\ arg[t].draw # arg[u].draw /\ plain[t] # plain[u]
          /\ ret[t].kind = "ok" /\ ret[u].kind = "ok" /\ ret[t].value # ret[u].value


----------------------------------------------------------------------------
(* C21 *)

SentTwice == op = "encrypt_message" /\ pc = "sent twice"

\* C21: of two encrypt_message calls with the same sender private key and the same
\* receiver public key, the second does not use the iv of the first (Symbol), nor the
\* salt and iv pair of the first (NIS1).
C21_NoIvReuse == SentTwice => drawn # arg.before.drawn


----------------------------------------------------------------------------
(* C22 *)

BuiltAgain == pc \in {"built again", "failed", "aborted"} /\ "before" \in DOMAIN arg

\* C22: the keypair built from a private key sk by from_private_key(sk) or by
\* from_hex_private_key(hex(sk)), and built again by either, is the same keypair both
\* times: its private_key() is sk, the hex text of which is the text given, and its
\* public_key() is the same whichever constructor ran and however often.
C22_DerivationIsDeterministic ==
    BuiltAgain =>
       /\ ret.kind = "ok"
       /\ peer = kp
       /\ Keypair_private_key(kp) = arg.private_key
       /\ Keypair_private_key(peer) = arg.private_key
       /\ encode_hex(Keypair_private_key(peer)) = encode_hex(arg.private_key)
       /\ Keypair_public_key(peer) = Keypair_public_key(kp)

\* a NIS1 keypair built by from_private_key and built again from the upper-case hex text
C22_Witness ==
    /\ BuiltAgain /\ ret.kind = "ok" /\ kp.variant = "nis1"
    /\ arg.before.ctor = "from_private_key"
    /\ arg.how = [ctor |-> "from_hex_private_key", style |-> "upper"]
    /\ peer.public_key # Zeros(KEY_BYTES_SIZE) /\ peer.private_key \in PrivateKeys


----------------------------------------------------------------------------
(* C24 *)

DerivedOnReceipt == op = "derive_shared_key" /\ pc = "derived"

\* C24: for two keypairs of one variant built from private keys, the symmetric key derived
\* from the receiver's private key and the sender's public key is the key derived from
\* the sender's private key and the receiver's public key (in NIS1 with the same salt),
\* and the scalar each side uses is the one whose multiple of the base point is that
\* side's public key.
C24_SharedKeyIsSymmetric ==
    DerivedOnReceipt =>
       /\ ret.kind = "ok" /\ arg.by_sender.kind = "ok"
       /\ ret.value = arg.by_sender.value
       /\ arg.sender_point = kp.public_key
       /\ arg.receiver_point = peer.public_key

\* two NIS1 parties with different keys hold one 32-byte key, derived with a salt
C24_Witness ==
    /\ DerivedOnReceipt /\ kp.variant = "nis1" /\ kp.private_key # peer.private_key
    /\ Len(ret.value) = KEY_BYTES_SIZE /\ Len(arg.salt) = NIS_SALT_LENGTH
    /\ ret.value = arg.by_sender.value


----------------------------------------------------------------------------
(* C25 *)

\* the parts of a NIS1 signature, from the seed, the stored public key and the message
SignParts(seed, publicKey, message) ==
    Let(Keccak512(Reverse(seed)), LAMBDA digest :
    Let([i \in 1..32 |-> CASE i = 1 -> digest[1] - (digest[1] % 8)
                           [] i = 32 -> (digest[32] % 64) + 64
                           [] OTHER -> digest[i]], LAMBDA a :
    Let(SubSeq(digest, 33, 64), LAMBDA nonce :
    Let(ScalarReduce(Keccak512(nonce \o message)), LAMBDA r :
    Let(Compress(BasepointMul(r)), LAMBDA R :
    Let(ScalarReduce(Keccak512(R \o publicKey \o message)), LAMBDA k :
        [a |-> a, nonce |-> nonce, r |-> r, R |-> R, k |-> k,
         s |-> ScalarAdd(ScalarMul(k, a), r)]))))))

Nis1Signed == kp.variant = "nis1" /\ op \in {"sign", "verify"} /\ pc \in {"signed", "done"}

\* C25: the NIS1 signature of a message is R || s with r = H(nonce || message) mod L,
\* R = compress(r * basepoint), k = H(R || publicKey || message) mod L and
\* s = (k * a + r) mod L, where a is the clamped low half and nonce the high half of the
\* one Keccak-512 digest of the byte-reversed seed and publicKey is the keypair's stored
\* public_key; verify hashes the same three inputs in the same order to its k.
C25_Nis1SignatureParts ==
    Nis1Signed =>
       \E parts \in {SignParts(kp.private_key, kp.public_key, plain)} :
          /\ sig = parts.R \o parts.s
          /\ Len(sig) = SIGNATURE_LENGTH
          /\ op = "verify" =>
                \E pk \in {InternalPublicKey_from_public_key(kp.public_key)} :
                   InternalPublicKey_verify_k(pk.value, arg.data, Slice(arg.signature, 0, 32))
                      = parts.k

\* a NIS1 keypair from 64 bytes whose public half is the key of another seed has signed
\* with that stored half, and verify has run on the signature
C25_Witness ==
    /\ Nis1Signed /\ op = "verify" /\ origin = "from_bytes" /\ plain # <<>>
    /\ kp.public_key # Keypair_from_private_key("nis1", kp.private_key).public_key
    /\ sig = Let(SignParts(kp.private_key, kp.public_key, plain), LAMBDA parts : parts.R \o parts.s)


----------------------------------------------------------------------------
(* C26 *)

\* the fields of an envelope, at the offsets the claim names
FieldsAt(variant, enc_msg) ==
    IF variant = "nis1"
    THEN [salt |-> SubSeq(enc_msg, 1, 32), tag |-> <<>>, iv |-> SubSeq(enc_msg, 33, 48),
          ciphertext |-> SubSeq(enc_msg, 49, Len(enc_msg))]
    ELSE [salt |-> <<>>, tag |-> SubSeq(enc_msg, 1, 16), iv |-> SubSeq(enc_msg, 17, 28),
          ciphertext |-> SubSeq(enc_msg, 29, Len(enc_msg))]

\* the cipher primitive run on those fields under the key derived by the receiver
OpenedAt(variant, receiver_sk, signer_pk, fields) ==
    Let(Keypair_derive_shared_key(variant, fields.salt, receiver_sk, signer_pk), LAMBDA key :
        IF key.kind # "ok" THEN key
        ELSE IF variant = "nis1" THEN Nis1_decrypt(fields.iv, key.value, fields.ciphertext)
        ELSE Sym_decrypt(fields.iv, key.value, fields.ciphertext \o fields.tag))

\* decrypt_message has run its cipher on an envelope that has all its fields
DecryptedFields ==
    /\ op = "decrypt_message" /\ pc \in {"received", "done"} /\ ret.ops = 2
    /\ Len(arg.enc_msg) >= 28

\* C26: decrypt_message returns what the cipher primitive gives on the fields at the
\* offsets encrypt_message writes them: in NIS1 the key derived with the salt of bytes
\* 0..32, the iv of bytes 32..48 and the ciphertext from byte 48; in Symbol the iv of
\* bytes 16..28 and the ciphertext from byte 28 followed by the tag of bytes 0..16.  In
\* an envelope that encrypt_message made, the salt and iv at those offsets are the ones
\* it drew.
C26_DecryptReadsWhatEncryptWrote ==
    DecryptedFields =>
       \E fields \in {FieldsAt(kp.variant, arg.enc_msg)} :
       \E opened \in {OpenedAt(kp.variant, IF pc = "received" THEN peer.private_key
                                           ELSE kp.private_key, arg.signer_pk, fields)} :
          /\ ret.kind = opened.kind /\ ret.value = opened.value /\ ret.error = opened.error
          /\ pc = "received" => (fields.iv = drawn.iv /\ fields.salt = drawn.salt)

\* the receiver has opened the NIS1 envelope of a message of one padded block
C26_Witness ==
    /\ DecryptedFields /\ pc = "received" /\ ret.kind = "ok" /\ ret.value = plain
    /\ kp.variant = "nis1" /\ plain # <<>> /\ Len(arg.enc_msg) = 64
    /\ FieldsAt(kp.variant, arg.enc_msg).iv = drawn.iv


----------------------------------------------------------------------------
(* C27 *)

\* the bytes end in l bytes of value l, for an l from 1 to their length (the padding the
\* Pkcs7 unpadder of the block-modes crate takes off)
EndsInPadding(data) ==
    /\ data # <<>>
    /\ data[Len(data)] \in 1..Len(data)
    /\ \A i \in (Len(data) - data[Len(data)]) + 1..Len(data) : data[i] = data[Len(data)]

\* the NIS1 decrypt_message ran on an envelope that has its salt and iv
Nis1Decrypted ==
    /\ op = "decrypt_message" /\ kp.variant = "nis1" /\ pc \in {"cut", "altered"}
    /\ Len(arg.enc_msg) >= NIS_SALT_LENGTH + NIS_AES_IV_LENGTH

\* the ciphertext of the envelope decrypt_message was given cannot be opened: it is
\* empty, or no whole number of blocks, or its CBC decryption does not end in padding
BadCiphertext ==
    \E fields \in {FieldsAt("nis1", arg.enc_msg)} :
       \/ fields.ciphertext = <<>>
       \/ Len(fields.ciphertext) % 16 # 0
       \/ \E key \in {Nis1_derive_shared_key(fields.salt, peer.private_key, arg.signer_pk)} :
             ~EndsInPadding(CbcDecryptBlocks(key.value, fields.iv, fields.ciphertext))

----------------------------------------------------------------------------
(* C28 *)

\* the caller holds a keypair that random, from_hex_private_key, from_private_key or
\* from_bytes returned
BuiltFromKey ==
    /\ pc \in {"built", "exported"}
    /\ origin \in {"random", "from_hex_private_key", "from_private_key", "from_bytes"}

\* C28: the public_key of every keypair returned by random, from_hex_private_key,
\* from_private_key or a successful from_bytes, in either variant, is the public key the
\* variant derives from the keypair's private_key.
C28_HalvesCorrespond ==
    BuiltFromKey =>
       kp.public_key = Keypair_from_private_key(kp.variant, kp.private_key).public_key


----------------------------------------------------------------------------
(* C29 *)

\* C29: sign returns a signature of 64 bytes and does not abort, for every keypair a
\* constructor returned, in both variants, also for a keypair that from_null_private_key
\* built around 32 bytes that decompress to no curve point.
C29_SignNeverAborts ==
    op = "sign" => (pc # "aborted" /\ ret.kind = "ok" /\ Len(ret.value) = SIGNATURE_LENGTH)


----------------------------------------------------------------------------
(* C30 *)

\* the (R, s) that InternalSignature::from_bytes reads out of the 64 bytes
Parsed(bytes) == InternalSignature_from_bytes(bytes)

\* C30: the s half (bytes 32..64) of every signature a NIS1 keypair's sign returns is a
\* canonical scalar below the group order L, so check_scalar and
\* InternalSignature::from_bytes accept the signature, and from_bytes reads the very
\* (R, s) whose to_bytes the signature is.
C30_Nis1SignatureIsCanonical ==
    Nis1Signed =>
       \E s \in {Slice(sig, 32, 64)} :
          /\ Lt(s, BASEPOINT_ORDER)
          /\ IsCanonical(s)
          /\ check_scalar(s).kind = "ok"
          /\ check_scalar(s).value = s
          /\ Parsed(sig).kind = "ok"
          /\ Parsed(sig).value = [R |-> Slice(sig, 0, 32), s |-> s]
          /\ InternalSignature_to_bytes(Parsed(sig).value) = sig

\* a NIS1 keypair has signed a message for which k * a + r passed L, so that s is below r
C30_Witness ==
    /\ Nis1Signed
    /\ op = "sign"
    /\ plain # <<>>
    /\ Lt(Slice(sig, 32, 64),
          ScalarFromHash(Keccak512(ExpandedPrivateKey_from(kp.private_key).nonce \o plain)))

====
